---------------------------- MODULE Spec2Model ----------------------------
(***************************************************************************)
(* A model of the RTCM 3 decoder of BNC (src/c/BNC/RTCM3Decoder.cpp):      *)
(* the framer (GetMessage, CRC24), the controller (Decode) and the         *)
(* message decoders that feed the epoch accumulator and emit ephemerides.  *)
(*                                                                         *)
(* Bytes are integers 0..255.  The framer buffer _Message is an array of   *)
(* sizeofMessage bytes; the model keeps the prefix of it that has been     *)
(* written so far, every byte behind that prefix is the indeterminate      *)
(* content of the freshly constructed object (uninit).                     *)
(***************************************************************************)
EXTENDS Integers, Sequences, FiniteSets, TLC

VARIABLES
  _Message,        \* unsigned char _Message[2048]: the written prefix
  _MessageSize,    \* size_t _MessageSize
  _NeedBytes,      \* size_t _NeedBytes
  _SkipBytes,      \* size_t _SkipBytes
  _BlockSize,      \* size_t _BlockSize
  _typeList,       \* GPSDecoder::_typeList
  _CurrentTime,    \* bncTime _CurrentTime
  _CurrentObsList, \* QList<t_satObs> _CurrentObsList
  _obsList,        \* GPSDecoder::_obsList, one entry per append
  GLOFreq,         \* static int GLOFreq[RTCM3_MSM_NUMSAT]
  wild,            \* the indices outside GLOFreq that were stored to
  emitted,         \* the ephemeris signals emitted so far, in order
  _antType,        \* GPSDecoder::_antType: descriptor and serial number
  _recType,        \* GPSDecoder::_recType: descriptor, firmware, serial number
  pc,              \* position of the running Decode call, "idle" between calls
  buffer,          \* Decode: the input bytes not yet copied (bufLen = Len(buffer))
  decoded,         \* Decode: bool decoded
  id,              \* Decode: int id, the value of the last GetMessage()
  irc,             \* the value returned by the last Decode call
  uninit,          \* the indeterminate byte a fresh _Message holds
  gpsw,            \* the GPS week of the wall clock (bncTime::gpsw)
  shl,             \* what the build makes of UINT64(1) << count for count >= 64
  latin1,          \* what QString::toLatin1 makes of a character above 255
  crc24,           \* the locals of a CRC24 call checked on its own, or << >>
  _staID,          \* RTCM3Decoder::_staID, as UTF-16 code units
  _coDecoders,     \* RTCM3Decoder::_coDecoders: key -> the co-decoder's members
  stream,          \* environment: the bytes the caller has still to feed
  lens,            \* environment: the chunk lengths the caller uses (0: all)
  plan,            \* environment: what is fed, and to which decoder after this one
  run,             \* environment: the number of the decoder being fed
  snap,            \* history: what the previous decoder held when it was done;
                   \* with two decoders in one process, the decoder not running
  call             \* history: what the decoder held when the running call began

vars == << _Message, _MessageSize, _NeedBytes, _SkipBytes, _BlockSize,
           _typeList, _CurrentTime, _CurrentObsList, _obsList, GLOFreq, wild,
           emitted, _antType, _recType, _staID, _coDecoders, pc, buffer, decoded, id, irc, uninit, gpsw, shl, latin1, crc24, stream, lens,
           plan, run, snap, call >>

----------------------------------------------------------------------------
(* Bounds of the model.                                                    *)

\* The frames one run dispatches (the length _typeList may reach).
MaxTypes == 6

\* The frames and pieces of noise that make up one input stream.
MaxItems == 3

\* The longest input of a CRC24 call checked on its own.
MaxData == 2

----------------------------------------------------------------------------
(* Program constants.                                                      *)

sizeofMessage == 2048

FrameStart == 211

CRC24Poly == 25578747

RTCM3_MSM_NUMSIG == 32

RTCM3_MSM_NUMSAT == 64

RTCM3_MSM_NUMCELLS == 96

----------------------------------------------------------------------------
(* Bit operations on naturals (C's ^ on unsigned values).                  *)

RECURSIVE XOR(_, _)
XOR(a, b) ==
  IF a = 0 THEN b
  ELSE IF b = 0 THEN a
  ELSE ((a + b) % 2) + 2 * XOR(a \div 2, b \div 2)

\* x ^ 0x01864cfb for a 25-bit x, one byte of the polynomial at a time.
XorPolyByte0 == [x \in 0..255 |-> XOR(x, CRC24Poly % 256)]
XorPolyByte1 == [x \in 0..255 |-> XOR(x, (CRC24Poly \div 256) % 256)]
XorPolyByte2 == [x \in 0..255 |-> XOR(x, (CRC24Poly \div 65536) % 256)]

XorPoly(x) ==
    XorPolyByte0[x % 256]
  + 256 * XorPolyByte1[(x \div 256) % 256]
  + 65536 * XorPolyByte2[(x \div 65536) % 256]
  + 16777216 * ((((x \div 16777216) % 2) + 1) % 2)
  + 33554432 * (x \div 33554432)

\* The inner for loop of CRC24: ii = 0 .. 7.  crc <<= 1 is exact here: crc is
\* below 2^25 before every shift, far from the 32-bit width.
RECURSIVE CRC24Shift(_, _)
CRC24Shift(crc, ii) ==
  IF ii = 8 THEN crc
  ELSE LET s == crc * 2
           t == IF (s \div 16777216) % 2 = 1 THEN XorPoly(s) ELSE s
       IN  IF t >= 0 THEN CRC24Shift(t, ii + 1) ELSE t

\* A body of the for loop that leaves bit 24 set: the polynomial without its
\* top bit.
CRC24BitKeepingTop(crc) ==
  LET s == crc * 2
  IN  IF (s \div 16777216) % 2 = 1 THEN XOR(s, CRC24Poly - 16777216) ELSE s

\* The body of the for loop of CRC24, once: `crc <<= 1; if (crc & 0x1000000)
\* crc ^= 0x01864cfb;`.  crc is below 2^24 before the shift, so the shift
\* loses nothing of the 32 bits.
CRC24Bit(crc) ==
  LET s == crc * 2
  IN  IF (s \div 16777216) % 2 = 1 THEN XorPoly(s) ELSE s

\* a ^ b for 4-bit values as a table, and for 8-bit values.
Xor4 == [a \in 0..15 |-> [b \in 0..15 |-> XOR(a, b)]]

Xor8(a, b) == 16 * Xor4[a \div 16][b \div 16] + Xor4[a % 16][b % 16]

\* The inner loop applied to a value whose low 16 bits are clear.
CRC24Table == [x \in 0..255 |-> CRC24Shift(x * 65536, 0)]

\* One pass of the while loop of CRC24 for the byte b, crc below 2^24:
\* `crc ^= (*buf++) << 16` changes the top byte only, and the inner loop is
\* linear over ^, so its result is the table entry of the top byte xor the
\* low 16 bits moved up by 8.
CRC24Byte(crc, b) ==
  LET t   == CRC24Table[Xor8(crc \div 65536, b)]
      low == crc % 65536
  IN  (t % 256) + 256 * Xor8((t \div 256) % 256, low % 256)
      + 65536 * Xor8(t \div 65536, low \div 256)

\* The while loop of CRC24 over buf[lo .. hi], bytes in ascending order (the
\* range is halved so that the evaluation stays shallow for long blocks).
RECURSIVE CRC24Range(_, _, _, _)
CRC24Range(crc, lo, hi, buf) ==
  IF lo > hi THEN crc
  ELSE IF lo = hi THEN CRC24Byte(crc, buf[lo])
  ELSE LET mid == (lo + hi) \div 2
           c   == CRC24Range(crc, lo, mid, buf)
       IN  IF c >= 0 THEN CRC24Range(c, mid + 1, hi, buf) ELSE c

\* uint32_t CRC24(long size, const unsigned char *buf): buf is a sequence,
\* the bytes buf[1 .. size] are summed.
CRC24(size, buf) == CRC24Range(0, 1, size, buf)

----------------------------------------------------------------------------
(* The framer: RTCM3Decoder::GetMessage.                                   *)

Min(S) == CHOOSE x \in S : \A y \in S : x <= y

Max(S) == CHOOSE x \in S : \A y \in S : x >= y

\* The concatenation of a sequence of sequences.
RECURSIVE Concat(_)
Concat(ss) == IF ss = << >> THEN << >> ELSE Head(ss) \o Concat(Tail(ss))

\* _Message[i], i in 0 .. sizeofMessage - 1.
MsgAt(i) == IF i < Len(_Message) THEN _Message[i + 1] ELSE uninit

\* ((m[1] & 3) << 8) | m[2]
BlockSizeAt(m) == (MsgAt(m + 1) % 4) * 256 + MsgAt(m + 2)

\* (m[3 + _BlockSize] << 16) | (m[3 + _BlockSize + 1] << 8) | m[3 + _BlockSize + 2]
CRCField(m, blk) ==
  MsgAt(m + 3 + blk) * 65536 + MsgAt(m + 3 + blk + 1) * 256 + MsgAt(m + 3 + blk + 2)

\* The test of line 1882: the CRC field equals CRC24(_BlockSize + 3, m).
CRCMatches(m, blk) ==
  CRCField(m, blk) = CRC24(blk + 3, [k \in 1..(blk + 3) |-> MsgAt(m + k - 1)])

\* if (e - m >= static_cast<int>(_BlockSize + 6))
BlockComplete(m, blk) == _MessageSize - m >= blk + 6

\* The scan loop `while (e - m >= 3)` leaves m unchanged here: either the loop
\* condition fails, or m[0] is 0xD3 and one of the two breaks is taken.  At
\* every other position the loop does ++m.
ScanEndsAt(m) ==
  IF _MessageSize - m < 3 THEN TRUE
  ELSE IF MsgAt(m) # FrameStart THEN FALSE
  ELSE IF BlockComplete(m, BlockSizeAt(m)) THEN CRCMatches(m, BlockSizeAt(m))
  ELSE TRUE

\* The value of m when the scan loop is left, having started at _SkipBytes:
\* the first position in lo .. hi where the scan ends (the range is halved so
\* that the evaluation stays shallow), -1 if there is none.
RECURSIVE FirstScanEnd(_, _)
FirstScanEnd(lo, hi) ==
  IF lo >= hi THEN (IF ScanEndsAt(lo) THEN lo ELSE 0 - 1)
  ELSE LET mid == (lo + hi) \div 2
           l   == FirstScanEnd(lo, mid)
       IN  IF l >= 0 THEN l ELSE FirstScanEnd(mid + 1, hi)

ScanEnd == FirstScanEnd(_SkipBytes, _MessageSize)

\* The positions up to m at which the loop body assigned _BlockSize.
BlockSizeSetAt(m) ==
  {j \in _SkipBytes..m : _MessageSize - j >= 3 /\ MsgAt(j) = FrameStart}

\* A framer that leaves out the memmove: the array is left as it was.
CopyToFrontLeftOut(i) == _Message

\* `if (i && m < e) memmove(_Message, m, _MessageSize - i)`: the array after it.
CopyToFront(i) ==
  IF i # 0 /\ i < _MessageSize
  THEN SubSeq(_Message, i + 1, _MessageSize)
       \o SubSeq(_Message, _MessageSize - i + 1, Len(_Message))
  ELSE _Message

\* `return !_NeedBytes ? ((_Message[3] << 4) | (_Message[4] >> 4)) : 0` on the
\* array msg.
MessageNumber(msg, need) ==
  IF need = 0
  THEN (IF 3 < Len(msg) THEN msg[4] ELSE uninit) * 16
       + ((IF 4 < Len(msg) THEN msg[5] ELSE uninit) \div 16)
  ELSE 0

\* int RTCM3Decoder::GetMessage(void): the members after the call and the
\* value returned (ret).
GetMessage ==
  LET e     == _MessageSize
      m     == ScanEnd
      atD3  == e - m >= 3
      blk   == BlockSizeAt(m)
      found == atD3 /\ BlockComplete(m, blk)
      sets  == BlockSizeSetAt(m)
      need  == IF ~atD3 THEN 3 ELSE IF found THEN 0 ELSE blk
      msg   == CopyToFront(m)
  IN  [ _Message     |-> msg,
        _MessageSize |-> e - m,
        _NeedBytes   |-> need,
        _SkipBytes   |-> IF found THEN blk + 6 ELSE 0,
        _BlockSize   |-> IF found THEN blk + 6
                         ELSE IF sets # {} THEN BlockSizeAt(Max(sets))
                         ELSE _BlockSize,
        ret          |-> MessageNumber(msg, need) ]

----------------------------------------------------------------------------
(* The bit reader (bits.h) and the epoch time (bnctime.h).  Neither file   *)
(* is part of src/; both follow sections 4.1 and 3 of the specification.   *)

\* The byte of the frame `data` at offset k (0-based), as the decoders see it.
ByteAt(data, k) == IF k < Len(data) THEN data[k + 1] ELSE uninit

\* GETBITS(b, n) with the read position at bit p of the payload (data + 3):
\* the n-bit unsigned integer found there, most significant bit first.
RECURSIVE GETBITS(_, _, _)
GETBITS(data, p, n) ==
  IF n = 0 THEN 0
  ELSE LET free  == 8 - (p % 8)
           take  == IF n < free THEN n ELSE free
           byte  == ByteAt(data, 3 + (p \div 8))
           chunk == (byte % (2 ^ free)) \div (2 ^ (free - take))
       IN  chunk * (2 ^ (n - take)) + GETBITS(data, p + take, n - take)

\* GETBITSSIGN(b, n): the same field as a two's complement integer.
GETBITSSIGN(data, p, n) ==
  LET v == GETBITS(data, p, n)
  IN  IF v >= 2 ^ (n - 1) THEN v - 2 ^ n ELSE v

\* GETFLOATSIGNM(b, n, m) before scaling: sign bit and magnitude.
GETBITSSIGNM(data, p, n) ==
  LET v == GETBITS(data, p + 1, n - 1)
  IN  IF GETBITS(data, p, 1) = 1 THEN 0 - v ELSE v

\* Whether `bits` bits can be read from a payload of size - 6 bytes.  A read
\* past the end makes the decoder return false at that read: what it did
\* before stays done.
Readable(size, bits) == bits <= 8 * (size - 6)

\* bncTime: the valid flag and the instant, in milliseconds of the GPS week.
\* bncTime() and reset().
reset == [valid |-> FALSE, ms |-> 0]

\* bncTime::set(int msec): milliseconds of the GPS week.
set(msec) == [valid |-> TRUE, ms |-> msec]

\* bncTime::setBDS(int msec): milliseconds of the BDT week, 14 s behind GPS.
setBDS(msec) == [valid |-> TRUE, ms |-> msec + 14000]

\* bncTime::setTk(int msec): milliseconds of the Moscow day (UTC + 3 h, 18
\* leap seconds behind GPS), taken on the first day of the week.
setTk(msec) ==
  [valid |-> TRUE, ms |-> (msec + 86400000 - 10800000 + 18000) % 86400000]

\* t_frqObs() for the RINEX code rnx: nothing is valid yet.
t_frqObs(rnx) ==
  [ _rnxType2ch |-> rnx, _codeValid |-> FALSE, _phaseValid |-> FALSE,
    _snrValid |-> FALSE, _dopplerValid |-> FALSE, _lockTimeIndicator |-> 0,
    wl |-> << >> ]

\* t_satObs: the satellite, the time and type of its frame, its signals.
t_satObs(sys, number, time, type, obs) ==
  [ _prn |-> << sys, number >>, _time |-> time, _type |-> type, _obs |-> obs ]

----------------------------------------------------------------------------
(* The members the message decoders work on.                               *)

\* The members before a frame is decoded; ret is the decoder's return value.
Members ==
  [ _CurrentTime    |-> _CurrentTime,
    _CurrentObsList |-> _CurrentObsList,
    _obsList        |-> _obsList,
    GLOFreq         |-> GLOFreq,
    wild            |-> wild,
    emitted         |-> emitted,
    _antType        |-> _antType,
    _recType        |-> _recType,
    ret             |-> FALSE ]

\* An accumulator that leaves out the flush on an epoch change: the staged
\* satellites join whatever the list holds.
AccumulateWithoutEpochFlush(CurrentObsTime, syncf, staged, glo, wld, whole) ==
  LET list == _CurrentObsList \o staged
      sync == whole /\ syncf = 0
  IN  [ _CurrentTime    |-> IF sync THEN reset ELSE CurrentObsTime,
        _CurrentObsList |-> IF sync THEN << >> ELSE list,
        _obsList        |-> IF sync THEN Append(_obsList, list) ELSE _obsList,
        GLOFreq         |-> glo,
        wild            |-> wld,
        emitted         |-> emitted,
        _antType        |-> _antType,
        _recType        |-> _recType,
        ret             |-> sync ]

\* An accumulator whose sync flush appends the batch and resets the time but
\* leaves the satellites in the list.
AccumulateWithoutClear(CurrentObsTime, syncf, staged, glo, wld, whole) ==
  LET change == _CurrentTime.valid /\ CurrentObsTime.ms # _CurrentTime.ms
      list   == (IF change THEN << >> ELSE _CurrentObsList) \o staged
      obs    == IF change THEN Append(_obsList, _CurrentObsList) ELSE _obsList
      sync   == whole /\ syncf = 0
  IN  [ _CurrentTime    |-> IF sync THEN reset ELSE CurrentObsTime,
        _CurrentObsList |-> list,
        _obsList        |-> IF sync THEN Append(obs, list) ELSE obs,
        GLOFreq         |-> glo,
        wild            |-> wld,
        emitted         |-> emitted,
        _antType        |-> _antType,
        _recType        |-> _recType,
        ret             |-> (whole /\ (change \/ syncf = 0)) ]

\* The preamble and the end shared by DecodeRTCM3GPS, DecodeRTCM3GLONASS and
\* DecodeRTCM3MSM: an epoch change flushes the accumulator, the satellites
\* staged by the frame are added, a cleared sync flag flushes again and resets
\* the time.  `whole` tells whether every read of the frame succeeded; when one
\* failed after the time was read, the function returned false there: the
\* epoch change and the satellites staged before it stay, the sync flag is not
\* looked at.
Accumulate(CurrentObsTime, syncf, staged, glo, wld, whole) ==
  LET change == _CurrentTime.valid /\ CurrentObsTime.ms # _CurrentTime.ms
      list   == (IF change THEN << >> ELSE _CurrentObsList) \o staged
      obs    == IF change THEN Append(_obsList, _CurrentObsList) ELSE _obsList
      sync   == whole /\ syncf = 0
  IN  [ _CurrentTime    |-> IF sync THEN reset ELSE CurrentObsTime,
        _CurrentObsList |-> IF sync THEN << >> ELSE list,
        _obsList        |-> IF sync THEN Append(obs, list) ELSE obs,
        GLOFreq         |-> glo,
        wild            |-> wld,
        emitted         |-> emitted,
        _antType        |-> _antType,
        _recType        |-> _recType,
        ret             |-> (whole /\ (change \/ syncf = 0)) ]

\* GLOFreq[index] = value for every pair of `writes`, in order: the table
\* afterwards.  index counts from 0, the table is kept as a sequence.
GLOFreqAfter(writes) ==
  [k \in 1..RTCM3_MSM_NUMSAT |->
     LET w == {n \in 1..Len(writes) : writes[n][1] = k - 1}
     IN  IF w = {} THEN GLOFreq[k] ELSE writes[Max(w)][2]]

\* The indices outside GLOFreq that `writes` store to.
WildAfter(writes) ==
  wild \cup {writes[n][1] : n \in {m \in 1..Len(writes) :
                                    writes[m][1] \notin 0..(RTCM3_MSM_NUMSAT - 1)}}

----------------------------------------------------------------------------
(* Legacy observations: DecodeRTCM3GPS and DecodeRTCM3GLONASS.             *)

\* The L1 signal of a legacy satellite record at bit p: code bit at p + c,
\* 20-bit phase difference at p + d, then lock time; for the extended types
\* the ambiguity (w bits) and the CNR follow.
LegacyL1(data, p, c, d, w, ext, rnx0, rnx1) ==
  LET i   == GETBITS(data, p + d, 20)
      ok  == i # 524288
      snr == GETBITS(data, p + d + 27 + w, 8)
  IN  [ t_frqObs(IF GETBITS(data, p + c, 1) = 1 THEN rnx1 ELSE rnx0) EXCEPT
          !._codeValid = ok,
          !._phaseValid = ok,
          !._lockTimeIndicator = GETBITS(data, p + d + 20, 7),
          !._snrValid = ext /\ snr # 0 ]

\* An L2 signal whose code is flagged valid whatever the code difference is.
LegacyL2CodeUnchecked(data, q, snr, rnx) ==
  [ t_frqObs(rnx[GETBITS(data, q, 2) + 1]) EXCEPT
      !._codeValid = TRUE,
      !._phaseValid = GETBITS(data, q + 16, 20) # 524288,
      !._lockTimeIndicator = GETBITS(data, q + 36, 7),
      !._snrValid = snr /\ GETBITS(data, q + 43, 8) # 0 ]

\* The L2 signal at bit q: 2-bit code, 14-bit code difference, 20-bit phase
\* difference, lock time and, for 1004 / 1012, the CNR.
LegacyL2(data, q, snr, rnx) ==
  [ t_frqObs(rnx[GETBITS(data, q, 2) + 1]) EXCEPT
      !._codeValid = GETBITS(data, q + 2, 14) # 8192,
      !._phaseValid = GETBITS(data, q + 16, 20) # 524288,
      !._lockTimeIndicator = GETBITS(data, q + 36, 7),
      !._snrValid = snr /\ GETBITS(data, q + 43, 8) # 0 ]

\* The bits of one satellite record of a 1001-1004 frame.
GPSSatBits(type) ==
  58 + (IF type \in {1002, 1004} THEN 16 ELSE 0)
     + (IF type \in {1003, 1004} THEN 43 ELSE 0)
     + (IF type = 1004 THEN 8 ELSE 0)

\* One pass of `while (numsats--)` of DecodeRTCM3GPS, the record at bit p.
GPSSat(data, p, type, time) ==
  LET sv  == GETBITS(data, p, 6)
      ext == type \in {1002, 1004}
      l1  == LegacyL1(data, p, 6, 31, 8, ext, "1C", "1W")
      l2  == LegacyL2(data, p + (IF ext THEN 74 ELSE 58), type = 1004,
                      << "2X", "2P", "2W", "2W" >>)
  IN  t_satObs(IF sv < 40 THEN "G" ELSE "S", IF sv < 40 THEN sv ELSE sv - 20,
               time, type,
               IF type \in {1003, 1004} THEN << l1, l2 >> ELSE << l1 >>)

\* bool RTCM3Decoder::DecodeRTCM3GPS(unsigned char* data, int size)
DecodeRTCM3GPS(data, size) ==
  LET type    == GETBITS(data, 0, 12)
      time    == set(GETBITS(data, 24, 30))
      syncf   == GETBITS(data, 54, 1)
      numsats == GETBITS(data, 55, 5)
      bits    == GPSSatBits(type)
      fit     == IF Readable(size, 64)
                 THEN Min({numsats, (8 * (size - 6) - 64) \div bits})
                 ELSE 0
  IN  IF ~Readable(size, 54)
      THEN Members
      ELSE Accumulate(time, syncf,
                      [k \in 1..fit |->
                         GPSSat(data, 64 + (k - 1) * bits, type, time)],
                      GLOFreq, wild,
                      Readable(size, 64) /\ fit = numsats)

\* The bits of one satellite record of a 1009-1012 frame.
GLONASSSatBits(type) ==
  64 + (IF type \in {1010, 1012} THEN 15 ELSE 0)
     + (IF type \in {1011, 1012} THEN 43 ELSE 0)
     + (IF type = 1012 THEN 8 ELSE 0)

\* One pass of `while (numsats--)` of DecodeRTCM3GLONASS, the record at bit p.
GLONASSSat(data, p, type, time) ==
  LET ext == type \in {1010, 1012}
      l1  == LegacyL1(data, p, 6, 37, 7, ext, "1C", "1P")
      l2  == LegacyL2(data, p + (IF ext THEN 79 ELSE 64), type = 1012,
                      << "2C", "2P", "2P", "2P" >>)
  IN  t_satObs("R", GETBITS(data, p, 6), time, type,
               IF type \in {1011, 1012} THEN << l1, l2 >> ELSE << l1 >>)

\* `GLOFreq[sv - 1] = 100 + freq - 7` of the record at bit p, as a store.
GLONASSSatFreq(data, p) ==
  << GETBITS(data, p, 6) - 1, 100 + GETBITS(data, p + 7, 5) - 7 >>

\* bool RTCM3Decoder::DecodeRTCM3GLONASS(unsigned char* data, int size)
DecodeRTCM3GLONASS(data, size) ==
  LET type    == GETBITS(data, 0, 12)
      time    == setTk(GETBITS(data, 24, 27))
      syncf   == GETBITS(data, 51, 1)
      numsats == GETBITS(data, 52, 5)
      bits    == GLONASSSatBits(type)
      fit     == IF Readable(size, 61)
                 THEN Min({numsats, (8 * (size - 6) - 61) \div bits})
                 ELSE 0
      stored  == IF Readable(size, 61)
                 THEN Cardinality({k \in 1..numsats :
                                     Readable(size, 61 + (k - 1) * bits + 12)})
                 ELSE 0
      writes  == [k \in 1..stored |-> GLONASSSatFreq(data, 61 + (k - 1) * bits)]
  IN  IF ~Readable(size, 51)
      THEN Members
      ELSE Accumulate(time, syncf,
                      [k \in 1..fit |->
                         GLONASSSat(data, 61 + (k - 1) * bits, type, time)],
                      GLOFreqAfter(writes), WildAfter(writes),
                      Readable(size, 61) /\ fit = numsats)

----------------------------------------------------------------------------
(* Multiple Signal Messages: DecodeRTCM3MSM.                               *)

\* static struct CodeData gps[], glo[], gal[], qzss[], bds[], irn[]: the RINEX
\* code of each signal id, "" where the table holds {0.0, 0}.
gps ==
  << "", "1C", "1P", "1W", "", "", "", "2C", "2P", "2W", "", "", "", "", "2S",
     "2L", "2X", "", "", "", "", "5I", "5Q", "5X", "", "", "", "", "", "1S",
     "1L", "1X" >>

glo ==
  << "", "1C", "1P", "", "", "", "", "2C", "2P", "4A", "4B", "4X", "6A", "6B",
     "6X", "3I", "3Q", "3X", "", "", "", "", "", "", "", "", "", "", "", "",
     "", "" >>

gal ==
  << "", "1C", "1A", "1B", "1X", "1Z", "", "6C", "6A", "6B", "6X", "6Z", "",
     "7I", "7Q", "7X", "", "8I", "8Q", "8X", "", "5I", "5Q", "5X", "", "", "",
     "", "", "", "", "" >>

qzss ==
  << "", "1C", "", "", "", "", "", "", "6S", "6L", "6X", "", "", "", "2S",
     "2L", "2X", "", "", "", "", "5I", "5Q", "5X", "", "", "", "", "", "1S",
     "1L", "1X" >>

bds ==
  << "", "2I", "2Q", "2X", "", "", "", "6I", "6Q", "6X", "", "", "", "7I",
     "7Q", "7X", "", "", "", "", "", "5D", "5P", "5X", "7D", "", "", "", "",
     "1D", "1P", "1X" >>

irn ==
  << "", "", "", "", "", "", "", "9A", "", "", "", "", "", "", "", "", "",
     "", "", "", "", "5A", "", "", "", "", "", "", "", "", "", "" >>

\* The if / else if chain on the message type, lines 474-497: the system
\* letter, "" where the function returns false.
MSMSys(type) ==
  IF type >= 1131 /\ type <= 1137 THEN "I"
  ELSE IF type >= 1121 /\ type <= 1127 THEN "C"
  ELSE IF type >= 1111 /\ type <= 1117 THEN "J"
  ELSE IF type >= 1101 /\ type <= 1007 THEN "S"
  ELSE IF type >= 1091 /\ type <= 1097 THEN "E"
  ELSE IF type >= 1081 /\ type <= 1087 THEN "R"
  ELSE IF type >= 1071 /\ type <= 1077 THEN "G"
  ELSE ""

\* CurrentObsTime of an MSM frame, lines 498-512.
MSMTime(data, sys) ==
  IF sys = "C" THEN setBDS(GETBITS(data, 24, 30))
  ELSE IF sys = "R" THEN setTk(GETBITS(data, 27, 27))
  ELSE set(GETBITS(data, 24, 30))

\* `switch (sys)` of lines 722-759 without the GLONASS channel: the table.
MSMCodes(sys) ==
  IF sys = "J" THEN qzss
  ELSE IF sys = "C" THEN bds
  ELSE IF sys = "R" THEN glo
  ELSE IF sys = "E" THEN gal
  ELSE IF sys = "I" THEN irn
  ELSE gps

\* The elements of a set of integers in ascending order.
Ascending(S) == [n \in 1..Cardinality(S) |->
                   CHOOSE x \in S : Cardinality({y \in S : y < x}) = n - 1]

\* The satellite mask (64 bits from bit 73) and the signal mask (32 bits from
\* bit 137) as the positions of their set bits, counted from the first bit
\* read: position s of the satellite mask is bit 63 - s of satmask.
MSMSats(data) == Ascending({s \in 0..(RTCM3_MSM_NUMSAT - 1) : GETBITS(data, 73 + s, 1) = 1})

MSMSigs(data) == Ascending({g \in 0..(RTCM3_MSM_NUMSIG - 1) : GETBITS(data, 137 + g, 1) = 1})

\* `cellmask & (UINT64(1) << count)` for count = numcells - 1 - c: the c-th
\* bit read of the cell mask, which starts at bit 169.  cellmask is a
\* uint64_t: of a mask of more than 64 bits it holds the last 64 read, and
\* for count >= 64 the shift is undefined: the builds either take the count
\* modulo 64, which tests the bit of cell c + 64, or yield 0.
MSMCell(data, numcells, c) ==
  IF numcells - 1 - c < 64 THEN GETBITS(data, 169 + c, 1) = 1
  ELSE IF shl = "wrap" THEN GETBITS(data, 169 + c + 64, 1) = 1
  ELSE FALSE

\* The width of the fields of an MSM sub-type (type % 10 in 4..7): per
\* satellite, and per cell the pseudorange, phase range, lock time, half-cycle
\* flag, CNR and phase range rate.
MSMWidths(sub) ==
  [ sat |-> IF sub \in {5, 7} THEN 36 ELSE 18,
    psr |-> IF sub \in {6, 7} THEN 20 ELSE 15,
    cp  |-> IF sub \in {6, 7} THEN 24 ELSE 22,
    ll  |-> IF sub \in {6, 7} THEN 10 ELSE 4,
    hc  |-> 1,
    cnr |-> IF sub \in {6, 7} THEN 10 ELSE 6,
    dop |-> IF sub \in {5, 7} THEN 15 ELSE 0 ]

\* The bits an MSM4-7 frame with numsat satellites, numcells cells and ncell
\* set cells is read to.
MSMBits(sub, numsat, numcells, ncell) ==
  LET w == MSMWidths(sub)
  IN  169 + numcells + numsat * w.sat
      + (IF numcells <= RTCM3_MSM_NUMCELLS
         THEN ncell * (w.psr + w.cp + w.ll + w.hc + w.cnr + w.dop) ELSE 0)

\* extsat[] of the a-th satellite (a from 0 in the order read): the 4-bit
\* extended information of MSM5 / MSM7, 15 otherwise.
MSMExtsat(data, sub, numsat, numcells, a) ==
  IF sub \in {5, 7}
  THEN GETBITS(data, 169 + numcells + 8 * numsat + 4 * a, 4)
  ELSE 15

\* The t_frqObs of lines 761-876 for the set cell of rank r (of ncell), whose
\* fields start at bit `first`.
MSMFrqObs(data, sub, rnx, first, ncell, r) ==
  LET w   == MSMWidths(sub)
      psr == GETBITS(data, first + w.psr * r, w.psr)
      cpS == first + ncell * w.psr
      cp  == GETBITS(data, cpS + w.cp * r, w.cp)
      llS == cpS + ncell * w.cp
      ll  == GETBITS(data, llS + w.ll * r, w.ll)
      dpS == llS + ncell * (w.ll + w.hc + w.cnr)
      dop == GETBITS(data, dpS + 15 * r, 15)
      pOK == GETBITSSIGN(data, cpS + w.cp * r, w.cp) > 0 - 2 ^ (w.cp - 1)
  IN  [ t_frqObs(rnx) EXCEPT
          !._codeValid = GETBITSSIGN(data, first + w.psr * r, w.psr)
                           > 0 - 2 ^ (w.psr - 1),
          !._phaseValid = pOK,
          !._lockTimeIndicator = IF pOK THEN ll ELSE 0,
          !._snrValid = TRUE,
          !._dopplerValid = sub \in {5, 7} /\ GETBITSSIGN(data, dpS + 15 * r, 15)
                                               > 0 - 16384 ]

\* A channel k that is taken from GLOFreq alone, whatever the extended
\* information of the frame is.
MSMChannelFromTable(s, ext) == GLOFreq[s + 1]

\* The channel k of lines 736-739 for the GLONASS satellite in slot s whose
\* extended information is ext.
MSMChannel(s, ext) == IF ext < 14 THEN 100 + ext - 7 ELSE GLOFreq[s + 1]

\* cd.wl of lines 722-759, the wavelength _phase and _doppler are divided by:
\* for the GLONASS signals whose table entry holds 0.0 (1C, 1P) or 1.0 (2C,
\* 2P) it is GLO_WAVELENGTH_L1(k - 100) or GLO_WAVELENGTH_L2(k - 100), kept
\* as the band and the channel; otherwise the wavelength of the table.
MSMWavelength(sys, rnx, k) ==
  IF sys = "R" /\ rnx \in {"1C", "1P"} THEN << "GLO_WAVELENGTH_L1", k - 100 >>
  ELSE IF sys = "R" /\ rnx \in {"2C", "2P"} THEN << "GLO_WAVELENGTH_L2", k - 100 >>
  ELSE << "table" >>

\* The loop of lines 696-883: the satellites staged by the frame.  Satellite
\* a (slot sats[a + 1]) owns the cells a * numsig .. a * numsig + numsig - 1;
\* a set cell yields a signal when its table entry has a code and, for
\* GLONASS, a channel is known; a satellite without signals is not staged.
MSMStaged(data, type, sys, time) ==
  LET sub      == type % 10
      sats     == MSMSats(data)
      sigs     == MSMSigs(data)
      numsat   == Len(sats)
      numsig   == Len(sigs)
      numcells == numsat * numsig
      cells    == {c \in 0..(numcells - 1) : MSMCell(data, numcells, c)}
      ncell    == Cardinality(cells)
      first    == 169 + numcells + numsat * MSMWidths(sub).sat
      rank(c)  == Cardinality({x \in cells : x < c})
      kept(a)  == {b \in 0..(numsig - 1) :
                     /\ (a * numsig + b) \in cells
                     /\ MSMCodes(sys)[sigs[b + 1] + 1] # ""
                     /\ sys = "R" =>
                          MSMChannel(sats[a + 1],
                                     MSMExtsat(data, sub, numsat, numcells, a)) # 0}
      obs(a)   == LET bs == Ascending(kept(a))
                      k  == MSMChannel(sats[a + 1],
                                       MSMExtsat(data, sub, numsat, numcells, a))
                  IN  [n \in 1..Len(bs) |->
                         [ MSMFrqObs(data, sub, MSMCodes(sys)[sigs[bs[n] + 1] + 1],
                                     first, ncell, rank(a * numsig + bs[n]))
                           EXCEPT !.wl = MSMWavelength(sys,
                                           MSMCodes(sys)[sigs[bs[n] + 1] + 1], k) ]]
      with     == Ascending({a \in 0..(numsat - 1) : kept(a) # {}})
  IN  [n \in 1..Len(with) |->
         t_satObs(sys,
                  IF sys = "S" THEN 20 + sats[with[n] + 1] ELSE sats[with[n] + 1] + 1,
                  time, type, obs(with[n]))]

\* The stores `GLOFreq[RTCM3_MSM_NUMSAT - i - 1] = 100 + extsat[numsat] - 7`
\* of line 738: one for every GLONASS satellite with a set cell and an
\* extended information below 14.
MSMFreqWrites(data, type, sys) ==
  LET sub      == type % 10
      sats     == MSMSats(data)
      numsat   == Len(sats)
      numsig   == Len(MSMSigs(data))
      numcells == numsat * numsig
      as       == Ascending({a \in 0..(numsat - 1) :
                     /\ sys = "R"
                     /\ MSMExtsat(data, sub, numsat, numcells, a) < 14
                     /\ \E b \in 0..(numsig - 1) : MSMCell(data, numcells, a * numsig + b)})
  IN  [n \in 1..Len(as) |->
         << sats[as[n] + 1],
            100 + MSMExtsat(data, sub, numsat, numcells, as[n]) - 7 >>]

\* An MSM decoder that walks the frames of every sub-type, 1 to 3 included.
DecodeRTCM3MSMAnySubType(data, size) ==
  LET type     == GETBITS(data, 0, 12)
      sys      == MSMSys(type)
      time     == MSMTime(data, sys)
      syncf    == GETBITS(data, 54, 1)
      full     == type <= 1137
      numsat   == Len(MSMSats(data))
      numcells == numsat * Len(MSMSigs(data))
      ncell    == Cardinality({c \in 0..(numcells - 1) : MSMCell(data, numcells, c)})
      walk     == full /\ numcells <= RTCM3_MSM_NUMCELLS
      writes   == IF walk THEN MSMFreqWrites(data, type, sys) ELSE << >>
  IN  IF ~Readable(size, 24) \/ sys = "" THEN Members
      ELSE IF ~Readable(size, 54) THEN Members
      ELSE IF \/ ~Readable(size, 55)
              \/ full /\ ~Readable(size, 169)
              \/ full /\ ~Readable(size, MSMBits(type % 10, numsat, numcells, ncell))
      THEN Accumulate(time, syncf, << >>, GLOFreq, wild, FALSE)
      ELSE Accumulate(time, syncf,
                      IF walk THEN MSMStaged(data, type, sys, time) ELSE << >>,
                      GLOFreqAfter(writes), WildAfter(writes), TRUE)


\* bool RTCM3Decoder::DecodeRTCM3MSM(unsigned char* data, int size)
DecodeRTCM3MSM(data, size) ==
  LET type     == GETBITS(data, 0, 12)
      sys      == MSMSys(type)
      time     == MSMTime(data, sys)
      syncf    == GETBITS(data, 54, 1)
      full     == type <= 1137 /\ (type % 10) >= 4 /\ (type % 10) <= 7
      numsat   == Len(MSMSats(data))
      numcells == numsat * Len(MSMSigs(data))
      ncell    == Cardinality({c \in 0..(numcells - 1) : MSMCell(data, numcells, c)})
      walk     == full /\ numcells <= RTCM3_MSM_NUMCELLS
      writes   == IF walk THEN MSMFreqWrites(data, type, sys) ELSE << >>
  IN  IF ~Readable(size, 24) \/ sys = "" THEN Members
      ELSE IF ~Readable(size, 54) THEN Members
      ELSE IF \/ ~Readable(size, 55)
              \/ full /\ ~Readable(size, 169)
              \/ full /\ ~Readable(size, MSMBits(type % 10, numsat, numcells, ncell))
      THEN Accumulate(time, syncf, << >>, GLOFreq, wild, FALSE)
      ELSE Accumulate(time, syncf,
                      IF walk THEN MSMStaged(data, type, sys, time) ELSE << >>,
                      GLOFreqAfter(writes), WildAfter(writes), TRUE)

----------------------------------------------------------------------------
(* Broadcast ephemerides.  An emitted signal is recorded with its name and *)
(* the satellite it is for.                                                *)

\* `emit newXEph(eph)` followed by `decoded = true`, with the stores to
\* GLOFreq that precede it.
Emit(signal, sys, number, writes) ==
  [ Members EXCEPT
      !.emitted = Append(emitted, [signal |-> signal, _prn |-> << sys, number >>]),
      !.GLOFreq = GLOFreqAfter(writes),
      !.wild    = WildAfter(writes),
      !.ret     = TRUE ]

\* `eph._sqrt_A < 1000.0` for the 32-bit field at bit p scaled by 2^-19: the
\* raw value is below 1000 * 2^19 = 8000 * 2^16.
SqrtATooSmall(data, p) == GETBITS(data, p, 16) < 8000

\* `eph._TOEweek > week + 1 || eph._TOEweek < week - 1` after the roll-overs
\* were added to the 10-bit week: t.gpsw() is the week the wall clock gives.
InvalidWeek(week10) ==
  LET week == week10 + (gpsw \div 1024) * 1024
  IN  gpsw > week + 1 \/ gpsw < week - 1

\* A 1019 decoder that leaves out the comparison of the size.
DecodeGPSEphemerisAnySize(data, size) ==
  IF SqrtATooSmall(data, 256) THEN Members
  ELSE IF InvalidWeek(GETBITS(data, 18, 10)) THEN Members
  ELSE Emit("newGPSEph", "G", GETBITS(data, 12, 6), << >>)

\* bool RTCM3Decoder::DecodeGPSEphemeris(unsigned char* data, int size)
DecodeGPSEphemeris(data, size) ==
  IF size # 67 THEN Members
  ELSE IF SqrtATooSmall(data, 256) THEN Members
  ELSE IF InvalidWeek(GETBITS(data, 18, 10)) THEN Members
  ELSE Emit("newGPSEph", "G", GETBITS(data, 12, 6), << >>)

\* min(|v|, cap): enough of a coordinate to compare a norm with a bound.
Clamp(v, cap) ==
  LET a == IF v < 0 THEN 0 - v ELSE v
  IN  IF a > cap THEN cap ELSE a

\* `eph._xv.Rows(1,3).NormFrobenius() < 1.0`: the positions are sign-magnitude
\* 27-bit fields at bits 72, 128 and 184 in units of 1000 / 2^11 m, so the
\* norm is below 1 m when the squares of the raw values sum to at most 4.
GLONASSZeroPosition(data) ==
  LET x == Clamp(GETBITSSIGNM(data, 72, 27), 3)
      y == Clamp(GETBITSSIGNM(data, 128, 27), 3)
      z == Clamp(GETBITSSIGNM(data, 184, 27), 3)
  IN  x * x + y * y + z * z <= 4

\* `eph._xv.Rows(4,6).NormFrobenius() < 1.0`: the velocities are 24-bit fields
\* at bits 48, 104 and 160 in units of 1000 / 2^20 m/s; the norm is below 1
\* when the squares sum to at most 1099511 (1048.576 squared, rounded down).
GLONASSZeroVelocity(data) ==
  LET x == Clamp(GETBITSSIGNM(data, 48, 24), 1049)
      y == Clamp(GETBITSSIGNM(data, 104, 24), 1049)
      z == Clamp(GETBITSSIGNM(data, 160, 24), 1049)
  IN  x * x + y * y + z * z <= 1099511

\* A 1020 decoder that stores the frequency channel as soon as it is read,
\* before the checks.
DecodeGLONASSEphemerisStoreFirst(data, size) ==
  LET sv == GETBITS(data, 12, 6)
      stored == [Members EXCEPT !.GLOFreq = GLOFreqAfter(<< << sv - 1, 93 + GETBITS(data, 18, 5) >> >>),
                                !.wild = WildAfter(<< << sv - 1, 93 + GETBITS(data, 18, 5) >> >>)]
  IN  IF size # 51 THEN Members
      ELSE IF GETBITS(data, 24, 1) = 0 \/ GETBITS(data, 268, 11) = 0 \/ GETBITS(data, 281, 1) = 0
             \/ GLONASSZeroPosition(data) \/ GLONASSZeroVelocity(data) THEN stored
      ELSE Emit("newGlonassEph", "R", sv, << << sv - 1, 93 + GETBITS(data, 18, 5) >> >>)

\* bool RTCM3Decoder::DecodeGLONASSEphemeris(unsigned char* data, int size)
DecodeGLONASSEphemeris(data, size) ==
  LET sv == GETBITS(data, 12, 6)
      _frequency_number == GETBITS(data, 18, 5) - 7
  IN  IF size # 51 THEN Members
      ELSE IF GETBITS(data, 24, 1) = 0 THEN Members
      ELSE IF GETBITS(data, 268, 11) = 0 THEN Members
      ELSE IF GETBITS(data, 281, 1) = 0 THEN Members
      ELSE IF GLONASSZeroPosition(data) THEN Members
      ELSE IF GLONASSZeroVelocity(data) THEN Members
      ELSE Emit("newGlonassEph", "R", sv,
                << << sv - 1, 100 + _frequency_number >> >>)

\* bool RTCM3Decoder::DecodeQZSSEphemeris(unsigned char* data, int size)
DecodeQZSSEphemeris(data, size) ==
  IF size # 67 THEN Members
  ELSE IF SqrtATooSmall(data, 214) THEN Members
  ELSE IF InvalidWeek(GETBITS(data, 446, 10)) THEN Members
  ELSE Emit("newGPSEph", "J", GETBITS(data, 12, 4), << >>)

\* bool RTCM3Decoder::DecodeIRNSSEphemeris(unsigned char* data, int size)
DecodeIRNSSEphemeris(data, size) ==
  IF size # 67 THEN Members
  ELSE IF InvalidWeek(GETBITS(data, 18, 10)) THEN Members
  ELSE IF SqrtATooSmall(data, 330) THEN Members
  ELSE Emit("newGPSEph", "I", GETBITS(data, 12, 6), << >>)

\* `pos.NormFrobenius() < 1.0` of DecodeSBASEphemeris: x and y are 30-bit
\* fields at bits 43 and 73 in units of 0.08 m, z a 25-bit field at bit 103
\* in units of 0.4 m; in units of 0.08 m the bound is 12.5.
SBASZeroPosition(data) ==
  LET x == Clamp(GETBITSSIGN(data, 43, 30), 13)
      y == Clamp(GETBITSSIGN(data, 73, 30), 13)
      z == Clamp(GETBITSSIGN(data, 103, 25), 3)
  IN  x * x + y * y + 25 * z * z <= 156

\* bool RTCM3Decoder::DecodeSBASEphemeris(unsigned char* data, int size)
DecodeSBASEphemeris(data, size) ==
  IF size # 35 THEN Members
  ELSE IF SBASZeroPosition(data) THEN Members
  ELSE Emit("newSBASEph", "S", 20 + GETBITS(data, 12, 6), << >>)

\* The two I/NAV checks of DecodeGalileoEphemeris, lines 1520-1536: the health
\* of E5b (bit 496) and E1-B (bit 499) differ, or exactly one of the two group
\* delays (10-bit fields at bits 476 and 486 in units of 2^-32 s) is zero
\* while the other exceeds 1e-9 s, that is 4 units.
GalileoInavRejected(data) ==
  LET a == Clamp(GETBITSSIGN(data, 476, 10), 5)
      b == Clamp(GETBITSSIGN(data, 486, 10), 5)
  IN  \/ GETBITS(data, 496, 2) # GETBITS(data, 499, 2)
      \/ (a = 0 /\ b = 5)
      \/ (b = 0 /\ a = 5)

\* bool RTCM3Decoder::DecodeGalileoEphemeris(unsigned char* data, int size):
\* here `size` is compared after the 6 bytes of framing were taken off and
\* after the message number was read.  `took` is the number of bytes that read
\* has taken off `size` by then: the bit reader works on `size`, and whether it
\* counts it down while it loads bytes is not written in RTCM3Decoder.cpp.
\* An I/NAV frame is read to bit 502, an F/NAV frame to bit 489.
DecodeGalileoEphemeris(data, size, took) ==
  LET i == GETBITS(data, 0, 12)
  IN  IF ~Readable(size, 12) THEN Members
      ELSE IF ~(\/ (i = 1046 /\ size - 6 - took = 61)
                \/ (i = 1045 /\ size - 6 - took = 60)) THEN Members
      ELSE IF ~Readable(size, IF i = 1046 THEN 502 ELSE 489) THEN Members
      ELSE IF i = 1046 /\ GalileoInavRejected(data) THEN Members
      ELSE IF SqrtATooSmall(data, 262) THEN Members
      ELSE Emit("newGalileoEph", "E", GETBITS(data, 12, 6), << >>)

\* bool RTCM3Decoder::DecodeBDSEphemeris(unsigned char* data, int size)
DecodeBDSEphemeris(data, size) ==
  IF size # 70 THEN Members
  ELSE IF SqrtATooSmall(data, 267) THEN Members
  ELSE Emit("newBDSEph", "C", GETBITS(data, 12, 6), << >>)

----------------------------------------------------------------------------
(* The controller: RTCM3Decoder::Decode, one step per loop pass.           *)

\* The message numbers handed to the SSR co-decoder, lines 1764-1766.
IsSSR(n) == (n >= 1057 /\ n <= 1068) \/ (n >= 1240 /\ n <= 1270) \/ n = 4076

\* The station ids a raw file names for its frames (`if (_rawFile) _staID =
\* _rawFile->staID()`, with plan.kind = "file" for a decoder that replays a
\* file), as UTF-16 code units: "A" and two ids of one Greek letter each,
\* which Latin-1 cannot represent.
StationIds == { << 65 >>, << 937 >>, << 936 >> }

\* QString::toLatin1(): a character above 255 is replaced by a question mark
\* or suppressed.
toLatin1(s) ==
  IF latin1 = "mark" THEN [k \in 1..Len(s) |-> IF s[k] > 255 THEN 63 ELSE s[k]]
  ELSE SelectSeq(s, LAMBDA c : c <= 255)

\* Lines 1764-1780 for a frame of message number n of station sta: an SSR
\* frame whose key is not in _coDecoders yet gets a new RTCM3coDecoder(sta)
\* with initSsrFormatType(IGSssr) for 4076 and RTCMssr otherwise, and the
\* frame is passed to the co-decoder found under the key.  `passed` records
\* the station and the number of the frames a co-decoder was given.
CoDecodersAfter(n, sta) ==
  IF ~IsSSR(n) THEN _coDecoders
  ELSE LET key == toLatin1(sta)
           co  == IF key \in DOMAIN _coDecoders THEN _coDecoders[key]
                  ELSE [ _staID |-> sta,
                         _type  |-> IF n = 4076 THEN "IGSssr" ELSE "RTCMssr",
                         passed |-> << >> ]
       IN  [k \in DOMAIN _coDecoders \cup {key} |->
              IF k = key THEN [co EXCEPT !.passed = Append(@, << sta, n >>)]
              ELSE _coDecoders[k]]

----------------------------------------------------------------------------
(* Station metadata: DecodeAntennaReceiver.                                *)

\* GETSTRING(b, s) with the read position at byte k of the payload: b is the
\* byte found there, s points at the byte behind it.
StringLength(data, k) == ByteAt(data, 3 + k)

\* The n bytes s points at.
StringBytes(data, k, n) == [j \in 1..n |-> ByteAt(data, 3 + k + j)]

\* strncmp(s, data + off, n) == 0 from position j on: s is a stored string,
\* which ends with a 0 byte, the other operand lies in the frame, and n is
\* the number of characters still to compare.  A negative n converted to
\* size_t never runs out.
RECURSIVE strncmpIsZero(_, _, _, _, _)
strncmpIsZero(s, data, off, n, j) ==
  LET c1 == IF j < Len(s) THEN s[j + 1] ELSE 0
      c2 == ByteAt(data, off + j)
  IN  IF n = 0 THEN TRUE
      ELSE IF c1 # c2 THEN FALSE
      ELSE IF c1 = 0 THEN TRUE
      ELSE strncmpIsZero(s, data, off, n - 1, j + 1)

\* bool RTCM3Decoder::DecodeAntennaReceiver(unsigned char* data, int size).
\* The antenna descriptor is compared with `recnum` characters, and recnum is
\* still -1 there.  A string that does not fit the payload ends the function
\* at that read.
DecodeAntennaReceiver(data, size) ==
  LET type      == GETBITS(data, 0, 12)
      recnum0   == 0 - 1
      antnum    == StringLength(data, 3)
      antenna   == StringBytes(data, 3, antnum)
      pushA     == \/ _antType = << >>
                   \/ ~strncmpIsZero(_antType[Len(_antType)].descriptor, data, 7, recnum0, 0)
      ant1      == IF pushA
                   THEN Append(_antType, [descriptor |-> antenna, serialnumber |-> << >>])
                   ELSE _antType
      k1        == 5 + antnum
      antsernum == StringLength(data, k1)
      ant2      == [ant1 EXCEPT ![Len(ant1)].serialnumber = StringBytes(data, k1, antsernum)]
      k2        == IF type \in {1008, 1033} THEN k1 + 1 + antsernum ELSE k1
      recnum    == StringLength(data, k2)
      k3        == k2 + 1 + recnum
      recfirnum == StringLength(data, k3)
      k4        == k3 + 1 + recfirnum
      recsernum == StringLength(data, k4)
      pushR     == \/ _recType = << >>
                   \/ ~strncmpIsZero(_recType[Len(_recType)].descriptor, data, 3 + k2 + 1, recnum, 0)
      rec1      == IF pushR
                   THEN Append(_recType, [descriptor   |-> StringBytes(data, k2, recnum),
                                          firmware     |-> StringBytes(data, k3, recfirnum),
                                          serialnumber |-> StringBytes(data, k4, recsernum)])
                   ELSE _recType
  IN  IF ~Readable(size, 8 * (4 + antnum)) THEN Members
      ELSE IF ~Readable(size, 8 * k1) THEN [Members EXCEPT !._antType = ant1]
      ELSE IF type \notin {1008, 1033} THEN [Members EXCEPT !._antType = ant1]
      ELSE IF ~Readable(size, 8 * k2) THEN [Members EXCEPT !._antType = ant1]
      ELSE IF type # 1033 THEN [Members EXCEPT !._antType = ant2]
      ELSE IF ~Readable(size, 8 * (k4 + 1 + recsernum)) THEN [Members EXCEPT !._antType = ant2]
      ELSE [Members EXCEPT !._antType = ant2, !._recType = rec1]

\* A dispatch that hands 1001 and 1003 to DecodeRTCM3GPS and 1009 and 1011 to
\* DecodeRTCM3GLONASS, as for 1002 / 1004 and 1010 / 1012.
DispatchPartialData(n, data, size, co, took) ==
  IF IsSSR(n) THEN [Members EXCEPT !.ret = co]
  ELSE IF n >= 1070 /\ n <= 1237 THEN DecodeRTCM3MSM(data, size)
  ELSE IF n \in 1001..1004 THEN DecodeRTCM3GPS(data, size)
  ELSE IF n \in 1009..1012 THEN DecodeRTCM3GLONASS(data, size)
  ELSE IF n = 1019 THEN DecodeGPSEphemeris(data, size)
  ELSE IF n = 1020 THEN DecodeGLONASSEphemeris(data, size)
  ELSE IF n = 1043 THEN DecodeSBASEphemeris(data, size)
  ELSE IF n = 1044 THEN DecodeQZSSEphemeris(data, size)
  ELSE IF n = 1041 THEN DecodeIRNSSEphemeris(data, size)
  ELSE IF n \in {1045, 1046} THEN DecodeGalileoEphemeris(data, size, took)
  ELSE IF n = 1042 THEN DecodeBDSEphemeris(data, size)
  ELSE IF n \in {1007, 1008, 1033} THEN DecodeAntennaReceiver(data, size)
  ELSE Members

\* The if / else if / switch of lines 1764-1846 for the frame `data` of
\* `size` bytes with message number n: the members after it, and in ret
\* whether the branch taken sets `decoded`.  co tells whether the SSR
\* co-decoder (RTCM3coDecoder.cpp, not part of src/) answers success, took
\* what the bit reader has taken off `size` in DecodeGalileoEphemeris.  The
\* result of DecodeAntennaReceiver is not looked at.  The antenna position
\* (1005, 1006) and the partial types 1001, 1003, 1009, 1011 leave these
\* members alone.
Dispatch(n, data, size, co, took) ==
  IF IsSSR(n) THEN [Members EXCEPT !.ret = co]
  ELSE IF n >= 1070 /\ n <= 1237 THEN DecodeRTCM3MSM(data, size)
  ELSE IF n \in {1002, 1004} THEN DecodeRTCM3GPS(data, size)
  ELSE IF n \in {1010, 1012} THEN DecodeRTCM3GLONASS(data, size)
  ELSE IF n = 1019 THEN DecodeGPSEphemeris(data, size)
  ELSE IF n = 1020 THEN DecodeGLONASSEphemeris(data, size)
  ELSE IF n = 1043 THEN DecodeSBASEphemeris(data, size)
  ELSE IF n = 1044 THEN DecodeQZSSEphemeris(data, size)
  ELSE IF n = 1041 THEN DecodeIRNSSEphemeris(data, size)
  ELSE IF n \in {1045, 1046} THEN DecodeGalileoEphemeris(data, size, took)
  ELSE IF n = 1042 THEN DecodeBDSEphemeris(data, size)
  ELSE IF n \in {1007, 1008, 1033} THEN DecodeAntennaReceiver(data, size)
  ELSE Members

\* t_irc Decode(char* buffer, int bufLen, ...): the call itself, lines 1740-1743.
\* The caller passes the next len bytes of its stream (all of it for len = 0).
DecodeCall(len) ==
  /\ pc = "idle"
  /\ stream # << >>
  /\ LET k == IF len = 0 \/ len > Len(stream) THEN Len(stream) ELSE len
     IN  /\ buffer' = SubSeq(stream, 1, k)
         /\ stream' = SubSeq(stream, k + 1, Len(stream))
  /\ decoded' = FALSE
  /\ pc' = "while"
  /\ call' = [ obs |-> Len(_obsList), eph |-> Len(emitted),
               size |-> _MessageSize, dropped |-> 0, done |-> FALSE ]
  /\ UNCHANGED << _Message, _MessageSize, _NeedBytes, _SkipBytes, _BlockSize,
                  _typeList, _CurrentTime, _CurrentObsList, _obsList, GLOFreq,
                  wild, emitted, _antType, _recType, _staID, _coDecoders, id, irc, uninit, gpsw, shl, latin1, crc24, lens,
                  plan, run, snap >>

\* `while (bufLen && _MessageSize < sizeof(_Message))` holds: lines 1746-1752,
\* the memcpy of l bytes behind the buffered ones.
DecodeCopy ==
  /\ pc = "while"
  /\ Len(buffer) # 0 /\ _MessageSize < sizeofMessage
  /\ LET l == Min({sizeofMessage - _MessageSize, Len(buffer)})
     IN  /\ _Message' = SubSeq(_Message, 1, _MessageSize)
                         \o SubSeq(buffer, 1, l)
                         \o SubSeq(_Message, _MessageSize + l + 1, Len(_Message))
         /\ _MessageSize' = _MessageSize + l
         /\ buffer' = SubSeq(buffer, l + 1, Len(buffer))
  /\ pc' = "GetMessage"
  /\ UNCHANGED << _NeedBytes, _SkipBytes, _BlockSize, _typeList, _CurrentTime,
                  _CurrentObsList, _obsList, GLOFreq, wild, emitted, _antType,
                  _recType, _staID, _coDecoders, decoded,
                  id, irc, uninit, gpsw, shl, latin1, crc24, stream, lens, plan, run, snap, call >>

\* The loop body, lines 1756-1846, for the frame g that GetMessage yielded:
\* d holds the members after the decoder of the frame's message number ran.
LoopBody(g, d) ==
  /\ _typeList' = Append(_typeList, g.ret)
  /\ _CurrentTime' = d._CurrentTime
  /\ _CurrentObsList' = d._CurrentObsList
  /\ _obsList' = d._obsList
  /\ GLOFreq' = d.GLOFreq
  /\ wild' = d.wild
  /\ emitted' = d.emitted
  /\ _antType' = d._antType
  /\ _recType' = d._recType
  /\ decoded' = (decoded \/ d.ret)
  /\ pc' = "GetMessage"

\* `while ((id = GetMessage()))` with g the outcome of the call.
LoopPass(g) ==
  /\ g.ret # 0 => Len(_typeList) < MaxTypes
  /\ _Message' = g._Message
  /\ _MessageSize' = g._MessageSize
  /\ _NeedBytes' = g._NeedBytes
  /\ _SkipBytes' = g._SkipBytes
  /\ _BlockSize' = g._BlockSize
  /\ id' = g.ret
  /\ IF g.ret # 0
     THEN \E co \in (IF IsSSR(g.ret) THEN BOOLEAN ELSE {FALSE}),
             took \in (IF g.ret \in {1045, 1046} THEN {0, 2} ELSE {0}),
             sta \in (IF plan.kind = "file" THEN StationIds ELSE {_staID}) :
            /\ LoopBody(g, Dispatch(g.ret, g._Message, g._BlockSize, co, took))
            /\ _staID' = sta
            /\ _coDecoders' = CoDecodersAfter(g.ret, sta)
     ELSE /\ pc' = "while"
          /\ UNCHANGED << _typeList, _CurrentTime, _CurrentObsList,
                          _obsList, GLOFreq, wild, emitted, _antType,
                          _recType, _staID, _coDecoders, decoded >>

\* One pass of `while ((id = GetMessage()))`, lines 1754-1847: the call of
\* GetMessage and, for a non-zero id, the loop body.  The number of frames one
\* decoder dispatches is capped by MaxTypes.
DecodeGetMessage ==
  /\ pc = "GetMessage"
  /\ LoopPass(GetMessage)
  /\ UNCHANGED << buffer, irc, uninit, gpsw, shl, latin1, crc24, stream, lens, plan, run, snap, call >>

\* The outer loop condition fails: `return decoded ? success : failure`.  The
\* bytes of the call that were never copied are dropped with `buffer`.
DecodeReturn ==
  /\ pc = "while"
  /\ ~(Len(buffer) # 0 /\ _MessageSize < sizeofMessage)
  /\ irc' = IF decoded THEN "success" ELSE "failure"
  /\ call' = [call EXCEPT !.dropped = Len(buffer), !.done = TRUE]
  /\ buffer' = << >>
  /\ pc' = "idle"
  /\ UNCHANGED << _Message, _MessageSize, _NeedBytes, _SkipBytes, _BlockSize,
                  _typeList, _CurrentTime, _CurrentObsList, _obsList, GLOFreq,
                  wild, emitted, _antType, _recType, _staID, _coDecoders, decoded, id,
                  uninit, gpsw, shl, latin1, crc24,
                  stream, lens, plan,
                  run, snap >>

\* RTCM3Decoder::RTCM3Decoder, line 82, in a fresh process: the members and
\* the locals of Decode before the first call.  GLOFreq is a zero-initialised
\* static.
New ==
  [ _Message        |-> << >>,
    _MessageSize    |-> 0,
    _SkipBytes      |-> 0,
    _BlockSize      |-> 0,
    _NeedBytes      |-> 0,
    _typeList       |-> << >>,
    _CurrentTime    |-> reset,
    _CurrentObsList |-> << >>,
    _obsList        |-> << >>,
    GLOFreq         |-> [k \in 1..RTCM3_MSM_NUMSAT |-> 0],
    wild            |-> {},
    emitted         |-> << >>,
    _antType        |-> << >>,
    _recType        |-> << >>,
    _staID          |-> << 65 >>,
    _coDecoders     |-> << >>,
    call            |-> [ obs |-> 0, eph |-> 0, size |-> 0, dropped |-> 0,
                          done |-> FALSE ] ]

Constructed ==
  /\ _Message = New._Message
  /\ _MessageSize = New._MessageSize
  /\ _SkipBytes = New._SkipBytes
  /\ _BlockSize = New._BlockSize
  /\ _NeedBytes = New._NeedBytes
  /\ _typeList = New._typeList
  /\ _CurrentTime = New._CurrentTime
  /\ _CurrentObsList = New._CurrentObsList
  /\ _obsList = New._obsList
  /\ GLOFreq = New.GLOFreq
  /\ wild = New.wild
  /\ emitted = New.emitted
  /\ _antType = New._antType
  /\ _recType = New._recType
  /\ _staID = New._staID
  /\ _coDecoders = New._coDecoders
  /\ pc = "idle" /\ buffer = << >> /\ decoded = FALSE /\ id = 0 /\ irc = "none"
  /\ call = New.call

\* What a caller can observe of a decoder that was fed its whole stream: the
\* outputs and the state the next bytes would meet.  _obsList.append(list)
\* adds the elements of the list, so the caller sees the batches joined.
Observable ==
  [ _typeList       |-> _typeList,
    _obsList        |-> Concat(_obsList),
    emitted         |-> emitted,
    buffer          |-> SubSeq(_Message, 1, _MessageSize),
    _CurrentObsList |-> _CurrentObsList,
    _CurrentTime    |-> _CurrentTime ]

\* The decoder has returned from the last call of its stream.
Fed == pc = "idle" /\ stream = << >> /\ call.done

\* The caller is done with one decoder and feeds the next stream of its plan
\* to a decoder constructed in a fresh process.
Restart ==
  /\ Fed
  /\ plan.next # << >>
  /\ snap' = Observable
  /\ run' = run + 1
  /\ stream' = Head(plan.next).stream
  /\ lens' = Head(plan.next).lens
  /\ plan' = [plan EXCEPT !.next = Tail(plan.next)]
  /\ _Message' = New._Message
  /\ _MessageSize' = New._MessageSize
  /\ _SkipBytes' = New._SkipBytes
  /\ _BlockSize' = New._BlockSize
  /\ _NeedBytes' = New._NeedBytes
  /\ _typeList' = New._typeList
  /\ _CurrentTime' = New._CurrentTime
  /\ _CurrentObsList' = New._CurrentObsList
  /\ _obsList' = New._obsList
  /\ GLOFreq' = New.GLOFreq
  /\ wild' = New.wild
  /\ emitted' = New.emitted
  /\ _antType' = New._antType
  /\ _recType' = New._recType
  /\ _staID' = New._staID
  /\ _coDecoders' = New._coDecoders
  /\ pc' = "idle" /\ buffer' = << >> /\ decoded' = FALSE /\ id' = 0 /\ irc' = "none"
  /\ call' = New.call
  /\ UNCHANGED << uninit, gpsw, shl, latin1, crc24 >>

----------------------------------------------------------------------------
(* The environment: the byte streams fed to the decoder.                   *)

\* The n-bit field holding v, most significant bit first.
Bits(v, n) == [i \in 1..n |-> (v \div (2 ^ (n - i))) % 2]

\* A bit string as bytes, padded with zero bits to a byte boundary.
BytesOf(b) ==
  LET p == b \o [i \in 1..((8 - (Len(b) % 8)) % 8) |-> 0]
  IN  [k \in 1..(Len(p) \div 8) |->
         128 * p[8 * k - 7] + 64 * p[8 * k - 6] + 32 * p[8 * k - 5]
         + 16 * p[8 * k - 4] + 8 * p[8 * k - 3] + 4 * p[8 * k - 2]
         + 2 * p[8 * k - 1] + p[8 * k]]

\* The frame around a payload: 0xD3, the 10-bit length, the payload, CRC-24Q.
Frame(payload) ==
  LET L    == Len(payload)
      head == << FrameStart, L \div 256, L % 256 >> \o payload
      c    == CRC24(L + 3, head)
  IN  head \o << c \div 65536, (c \div 256) % 256, c % 256 >>

\* A frame that carries only a message number.
FrameOfType(n) == Frame(BytesOf(Bits(n, 12)))

\* n bytes of value b.
Fill(b, n) == [k \in 1..n |-> b]

\* All sequences of 1 .. n elements of S.
SeqsUpTo(S, n) == UNION {[1..k -> S] : k \in 1..n}

\* A two's complement field of n bits.
SignedBits(v, n) == Bits((v + 2 ^ n) % (2 ^ n), n)

\* The preamble shared by the legacy observation frames: time is 30 bits for
\* GPS and 27 bits for GLONASS.
LegacyHead(type, time, width, syncf, numsats) ==
  Bits(type, 12) \o Bits(0, 12) \o Bits(time, width) \o Bits(syncf, 1)
  \o Bits(numsats, 5) \o Bits(0, 4)

\* A 1002 / 1004 satellite record: satellite sv with L1 phase difference i
\* and CNR cnr; 1004 adds an L2 signal with code difference 0.
GPSRecord(type, sv, i, cnr) ==
  Bits(sv, 6) \o Bits(0, 1) \o Bits(1000, 24) \o Bits(i, 20) \o Bits(1, 7)
  \o Bits(0, 8) \o Bits(cnr, 8)
  \o (IF type = 1004
      THEN Bits(1, 2) \o Bits(0, 14) \o Bits(i, 20) \o Bits(1, 7) \o Bits(cnr, 8)
      ELSE << >>)

\* A 1002 / 1004 frame with the satellites svs.
GPSFrame(type, tow, syncf, svs) ==
  Frame(BytesOf(LegacyHead(type, tow, 30, syncf, Len(svs))
                \o Concat([k \in 1..Len(svs) |-> GPSRecord(type, svs[k], 7, 40)])))

\* A 1002 / 1004 frame that announces one satellite and ends after its header.
GPSFrameCut(type, tow, syncf) ==
  Frame(BytesOf(LegacyHead(type, tow, 30, syncf, 1)))

\* A 1010 / 1012 satellite record on channel field freq.
GLONASSRecord(type, sv, freq) ==
  Bits(sv, 6) \o Bits(0, 1) \o Bits(freq, 5) \o Bits(1000, 25) \o Bits(7, 20)
  \o Bits(1, 7) \o Bits(0, 7) \o Bits(40, 8)
  \o (IF type = 1012
      THEN Bits(1, 2) \o Bits(0, 14) \o Bits(7, 20) \o Bits(1, 7) \o Bits(40, 8)
      ELSE << >>)

\* A 1010 / 1012 frame with the satellites svs on channel field freq.
GLONASSFrame(type, tk, syncf, svs, freq) ==
  Frame(BytesOf(LegacyHead(type, tk, 27, syncf, Len(svs))
                \o Concat([k \in 1..Len(svs) |-> GLONASSRecord(type, svs[k], freq)])))

\* n fields of w bits, each holding v.
Repeat(v, w, n) == Concat([k \in 1..n |-> SignedBits(v, w)])

\* An MSM frame: satellites at the mask positions sats, signals at the mask
\* positions sigs, the cell mask cells (one bit per satellite and signal),
\* extended information ext for every satellite, fine pseudorange psr, fine
\* phase range cp and fine phase range rate dop for every set cell.  Sub-types
\* 1-3 end after the masks.
MSMFrameWith(type, time, syncf, sats, sigs, cells, ext, psr, cp, dop) ==
  LET sub    == type % 10
      w      == MSMWidths(sub)
      numsat == Cardinality(sats)
      ncell  == Cardinality({c \in 1..Len(cells) : cells[c] = 1})
      head   == Bits(type, 12) \o Bits(0, 12) \o Bits(time, 30) \o Bits(syncf, 1)
                \o Bits(0, 18)
                \o [k \in 1..RTCM3_MSM_NUMSAT |-> IF (k - 1) \in sats THEN 1 ELSE 0]
                \o [k \in 1..RTCM3_MSM_NUMSIG |-> IF (k - 1) \in sigs THEN 1 ELSE 0]
                \o cells
      satd   == Repeat(70, 8, numsat)
                \o (IF sub \in {5, 7} THEN Repeat(ext, 4, numsat) ELSE << >>)
                \o Repeat(1, 10, numsat)
                \o (IF sub \in {5, 7} THEN Repeat(1, 14, numsat) ELSE << >>)
      sigd   == Repeat(psr, w.psr, ncell) \o Repeat(cp, w.cp, ncell)
                \o Repeat(1, w.ll, ncell) \o Repeat(0, 1, ncell)
                \o Repeat(40, w.cnr, ncell)
                \o (IF sub \in {5, 7} THEN Repeat(dop, 15, ncell) ELSE << >>)
  IN  Frame(BytesOf(IF sub >= 4 THEN head \o satd \o sigd ELSE head))

\* The same with a fine phase range rate of 5 for every set cell.
MSMFrame(type, time, syncf, sats, sigs, cells, ext, psr, cp) ==
  MSMFrameWith(type, time, syncf, sats, sigs, cells, ext, psr, cp, 5)

\* A frame of n payload bytes that are zero except for the fields given as
\* << bit offset, width, value >>.
FieldFrame(n, fields) ==
  Frame(BytesOf([k \in 1..(8 * n) |->
           IF \E f \in fields : (k - 1) \in f[1]..(f[1] + f[2] - 1)
           THEN LET g == CHOOSE f \in fields : (k - 1) \in f[1]..(f[1] + f[2] - 1)
                IN  Bits(g[3], g[2])[k - g[1]]
           ELSE 0]))

\* A 1019 frame for satellite prn of week `week` with the upper half of
\* sqrt(A) set to sqrtA.
GPSEphFrame(prn, week, sqrtA) ==
  FieldFrame(61, { << 0, 12, 1019 >>, << 12, 6, prn >>, << 18, 10, week % 1024 >>,
                   << 256, 16, sqrtA >> })

\* A 1020 frame for satellite sv on channel field freq with x position pos
\* and x velocity 2000.
GLONASSEphFrame(sv, freq, pos) ==
  FieldFrame(45, { << 0, 12, 1020 >>, << 12, 6, sv >>, << 18, 5, freq >>,
                   << 24, 1, 1 >>, << 49, 23, 2000 >>, << 73, 26, pos >>,
                   << 268, 11, 100 >>, << 281, 1, 1 >> })

\* Framer inputs: frames with an unknown number (999), with number 0, with an
\* empty payload, and bytes that are no frame: 0xFF, a 0xD3 announcing 16
\* bytes, a 0xD3 announcing none.
\* A frame of message number n whose six reserved bits are all set, with the
\* CRC of the bytes as they are.
ReservedFrame(n) ==
  LET head == << FrameStart, 252, 2 >> \o BytesOf(Bits(n, 12))
      c    == CRC24(5, head)
  IN  head \o << c \div 65536, (c \div 256) % 256, c % 256 >>

FramerItems ==
  { FrameOfType(999), FrameOfType(0), Frame(<< >>), FrameOfType(998) \o << 0 >>,
    << 255 >>, << FrameStart, 0, 16 >>, << FrameStart, 0, 0 >>, ReservedFrame(997) }

\* A stream that fills the buffer in one call: a frame with number 0, then zeros.
FullStream == FrameOfType(0) \o Fill(0, sizeofMessage - Len(FrameOfType(0)) + 1)

\* A plan that feeds one decoder only.
Single == [kind |-> "single", next |-> << >>, prefix |-> << >>, frames |-> << >>]

FramerScenarios ==
       { [stream |-> Concat(ss), lens |-> ls] :
           ss \in SeqsUpTo(FramerItems, MaxItems), ls \in {{0}, {1}, {3}} }
  \cup { [stream |-> FullStream, lens |-> {0, sizeofMessage}] }

InitFramer ==
  /\ Constructed
  /\ uninit \in {0, 62}
  /\ gpsw = 2443 /\ shl = "wrap" /\ latin1 = "mark" /\ crc24 = << >>
  /\ plan = Single /\ run = 1 /\ snap = << >>
  /\ \E sc \in FramerScenarios : stream = sc.stream /\ lens = sc.lens

\* Observation and ephemeris frames: GPS and GLONASS epochs with and without
\* satellites and with the sync flag set and cleared, a GPS frame cut short,
\* MSM frames of GPS, GLONASS, BeiDou and SBAS, accepted and rejected
\* ephemerides.
ObsItems ==
  { GPSFrame(1004, 1000, 1, << 5 >>),
    GPSFrame(1004, 1000, 0, << 6, 45 >>),
    GPSFrame(1002, 2000, 1, << >>),
    GPSFrame(1004, 2000, 0, << >>),
    GPSFrame(1001, 1000, 0, << 7 >>),
    GPSFrameCut(1004, 2000, 1),
    GLONASSFrame(1012, 10783000, 1, << 3 >>, 9),
    MSMFrame(1074, 1000, 1, {0, 2}, {1, 7}, << 1, 0, 1, 1 >>, 15, 3, 3),
    MSMFrame(1087, 10784000, 1, {2, 4}, {1}, << 1, 1 >>, 8, 3, 3),
    MSMFrame(1124, 1000, 1, {0}, {1}, << 1 >>, 15, 3, 3),
    MSMFrame(1104, 3000, 0, {0}, {1}, << 1 >>, 15, 3, 3),
    MSMFrame(1071, 3000, 1, {0}, {1}, << 1 >>, 15, 3, 3),
    GPSEphFrame(5, 2443, 20000),
    GPSEphFrame(5, 2443, 0),
    GLONASSEphFrame(3, 9, 1000) }

\* Every sequence of frames is fed in one call; the shorter ones are also fed
\* in calls of 40 bytes, which splits frames between calls.
Scenarios ==
       { [stream |-> Concat(ss), lens |-> {0}] : ss \in SeqsUpTo(ObsItems, MaxItems) }
  \cup { [stream |-> Concat(ss), lens |-> {40}] :
           ss \in SeqsUpTo(ObsItems, MaxItems - 1) }

Init ==
  /\ Constructed
  /\ uninit = 0
  /\ gpsw = 2443 /\ shl = "wrap" /\ latin1 = "mark" /\ crc24 = << >>
  /\ plan = Single /\ run = 1 /\ snap = << >>
  /\ \E sc \in Scenarios : stream = sc.stream /\ lens = sc.lens

Next ==
  \/ \E len \in lens : DecodeCall(len)
  \/ DecodeCopy
  \/ DecodeGetMessage
  \/ DecodeReturn

Spec == Init /\ [][Next]_vars

SpecFramer == InitFramer /\ [][Next]_vars

\* GLONASS frames with channel fields inside and outside the range the
\* standard defines (0..20): 1010 / 1012 observations, also for satellite 0,
\* accepted and rejected 1020 ephemerides, MSM5 and MSM7 frames with and
\* without the extended information.
GLOItems ==
  { GLONASSFrame(1012, 10783000, 1, << 3 >>, 9),
    GLONASSFrame(1010, 10783000, 0, << 5 >>, 31),
    GLONASSFrame(1010, 10783000, 1, << 0 >>, 9),
    GLONASSEphFrame(3, 20, 1000),
    GLONASSEphFrame(4, 30, 1000),
    GLONASSEphFrame(6, 9, 0),
    MSMFrame(1085, 10784000, 1, {2, 7}, {1}, << 1, 1 >>, 0, 3, 3),
    MSMFrame(1087, 10784000, 0, {2, 4}, {1, 7}, << 1, 1, 1, 1 >>, 15, 3, 3) }

GLOScenarios ==
  { [stream |-> Concat(ss), lens |-> {0}] : ss \in SeqsUpTo(GLOItems, MaxItems) }

InitGLO ==
  /\ Constructed
  /\ uninit = 0
  /\ gpsw = 2443 /\ shl = "wrap" /\ latin1 = "mark" /\ crc24 = << >>
  /\ plan = Single /\ run = 1 /\ snap = << >>
  /\ \E sc \in GLOScenarios : stream = sc.stream /\ lens = sc.lens

SpecGLO == InitGLO /\ [][Next]_vars

\* MSM frames of sub-types 1 to 3, with sync 1 and sync 0, among frames that
\* leave satellites pending: 1004 at 1000 ms, GLONASS MSM7 at 2000 ms; the
\* partial frames are at 3000 and 2000 ms (GPS, GLONASS) and 14000 ms (BeiDou).
\* With them the legacy frames of partial data, 1001, 1003, 1009 and 1011,
\* each with a satellite at 3000 ms and sync 0, and a frame of number 1013,
\* which Decode has no case for.
PartialItems ==
  { GPSFrame(1004, 1000, 1, << 5 >>),
    MSMFrame(1087, 10784000, 1, {2, 4}, {1}, << 1, 1 >>, 8, 3, 3),
    MSMFrame(1071, 3000, 1, {0}, {1}, << 1 >>, 15, 3, 3),
    MSMFrame(1083, 10785000, 0, {2}, {1}, << 1 >>, 15, 3, 3),
    MSMFrame(1122, 0, 0, {0}, {1}, << 1 >>, 15, 3, 3),
    MSMFrame(1083, 10784000, 1, {2}, {1}, << 1 >>, 15, 3, 3),
    GPSFrame(1001, 3000, 0, << 7 >>),
    GPSFrame(1003, 3000, 0, << 7 >>),
    GLONASSFrame(1009, 10785000, 0, << 3 >>, 9),
    GLONASSFrame(1011, 10785000, 0, << 3 >>, 9),
    FrameOfType(1013) }

InitPartial ==
  /\ Constructed
  /\ uninit = 0
  /\ gpsw = 2443 /\ shl = "wrap" /\ latin1 = "mark" /\ crc24 = << >>
  /\ plan = Single /\ run = 1 /\ snap = << >> /\ lens = {0}
  /\ \E ss \in SeqsUpTo(PartialItems, MaxItems) : stream = Concat(ss)

SpecPartial == InitPartial /\ [][Next]_vars

\* GPS MSM4 frames of 2 signals with 2 satellites (4 cells), 33 satellites
\* (66 cells: more than cellmask holds, within RTCM3_MSM_NUMCELLS) and 49
\* satellites (98 cells: over the limit), and a GLONASS MSM5 frame of 98
\* cells whose extended information holds a channel.
CellItems ==
  LET CellMask(n, ones) == [c \in 1..n |-> IF (c - 1) \in ones THEN 1 ELSE 0]
  IN  { MSMFrame(1074, 1000, 1, 0..1, {1, 7}, CellMask(4, {0, 3}), 15, 3, 3),
        MSMFrame(1074, 1000, 1, 0..32, {1, 7}, CellMask(66, {0}), 15, 3, 3),
        MSMFrame(1074, 1000, 1, 0..32, {1, 7}, CellMask(66, {65}), 15, 3, 3),
        MSMFrame(1074, 1000, 1, 0..32, {1, 7}, CellMask(66, {1, 65}), 15, 3, 3),
        MSMFrame(1074, 1000, 0, 0..48, {1, 7}, CellMask(98, {0, 97}), 15, 3, 3),
        MSMFrame(1085, 10783000, 1, 0..48, {1, 7}, CellMask(98, {0, 97}), 8, 3, 3) }

InitCells ==
  /\ Constructed
  /\ uninit = 0
  /\ gpsw = 2443
  /\ shl \in {"wrap", "zero"} /\ latin1 = "mark" /\ crc24 = << >>
  /\ plan = Single /\ run = 1 /\ snap = << >> /\ lens = {0}
  /\ \E ss \in SeqsUpTo(CellItems, MaxItems - 1) : stream = Concat(ss)

SpecCells == InitCells /\ [][Next]_vars

\* SSR frames of both families and of the IGS number, replayed from a file
\* that names one of StationIds for every frame.
SSRItems == { FrameOfType(1057), FrameOfType(1243), FrameOfType(4076) }

InitSSR ==
  /\ Constructed
  /\ uninit = 0
  /\ gpsw = 2443
  /\ shl = "wrap" /\ latin1 \in {"mark", "drop"} /\ crc24 = << >>
  /\ plan = [Single EXCEPT !.kind = "file"] /\ run = 1 /\ snap = << >> /\ lens = {0}
  /\ \E ss \in SeqsUpTo(SSRItems, MaxItems) : stream = Concat(ss)

SpecSSR == InitSSR /\ [][Next]_vars

\* CRC24 on its own: a call on bounded data, one step of its loops at a time,
\* then a call on the data followed by the three bytes of the result, most
\* significant first.  crc24 holds the locals: the buffer, the bytes left,
\* the position of *buf, crc and ii.
InitCRC ==
  /\ Constructed
  /\ uninit = 0
  /\ gpsw = 2443
  /\ shl = "wrap" /\ latin1 = "mark"
  /\ plan = Single /\ run = 1 /\ snap = << >> /\ lens = {0} /\ stream = << >>
  /\ \E data \in {<< >>} \cup SeqsUpTo({0, 1, 211, 255}, MaxData) :
        crc24 = [ data |-> data, buf |-> data, size |-> Len(data), p |-> 1,
                  crc |-> 0, ii |-> 0, pc |-> "while" ]

\* uint32_t RTCM3Decoder::CRC24(long size, const unsigned char *buf), lines
\* 1855-1867, a step at a time: `while (size--)` with `crc ^= (*buf++) << 16`,
\* a pass of the for loop, the end of the for loop, `return crc`.
CRC24Run ==
  /\ crc24 # << >>
  /\ \/ /\ crc24.pc = "while" /\ crc24.size > 0
        /\ crc24' = [crc24 EXCEPT !.size = @ - 1,
                                  !.crc = XOR(@, crc24.buf[crc24.p] * 65536),
                                  !.p = @ + 1, !.ii = 0, !.pc = "for"]
     \/ /\ crc24.pc = "for" /\ crc24.ii < 8
        /\ crc24' = [crc24 EXCEPT !.crc = CRC24Bit(@), !.ii = @ + 1]
     \/ /\ crc24.pc = "for" /\ crc24.ii = 8
        /\ crc24' = [crc24 EXCEPT !.pc = "while"]
     \/ /\ crc24.pc = "while" /\ crc24.size = 0
        /\ crc24' = [crc24 EXCEPT !.pc = "return"]
  /\ UNCHANGED << _Message, _MessageSize, _NeedBytes, _SkipBytes, _BlockSize,
                  _typeList, _CurrentTime, _CurrentObsList, _obsList, GLOFreq, wild,
                  emitted, _antType, _recType, _staID, _coDecoders, pc, buffer,
                  decoded, id, irc, uninit, gpsw, shl, latin1, stream, lens, plan,
                  run, snap, call >>

\* The caller appends the result to the data as GetMessage expects it behind
\* a frame (lines 1882-1884: three bytes, most significant first) and calls
\* CRC24 on the whole.
CRC24Again ==
  /\ crc24 # << >>
  /\ crc24.pc = "return" /\ crc24.buf = crc24.data
  /\ LET c   == crc24.crc
         all == crc24.data \o << (c \div 65536) % 256, (c \div 256) % 256, c % 256 >>
     IN  crc24' = [ data |-> crc24.data, buf |-> all, size |-> Len(all), p |-> 1,
                    crc |-> 0, ii |-> 0, pc |-> "while" ]
  /\ UNCHANGED << _Message, _MessageSize, _NeedBytes, _SkipBytes, _BlockSize,
                  _typeList, _CurrentTime, _CurrentObsList, _obsList, GLOFreq, wild,
                  emitted, _antType, _recType, _staID, _coDecoders, pc, buffer,
                  decoded, id, irc, uninit, gpsw, shl, latin1, stream, lens, plan,
                  run, snap, call >>

SpecCRC == InitCRC /\ [][CRC24Run \/ CRC24Again]_vars

\* The fields that make an ephemeris frame of message number n pass the
\* checks of its decoder, as << bit offset, width, value >>: the satellite,
\* the week of the wall clock, the upper half of sqrt(A), a position.
EphFields(n) ==
  { << 0, 12, n >> } \cup
  CASE n = 1019 -> { << 12, 6, 5 >>, << 18, 10, 2443 % 1024 >>, << 256, 16, 20000 >> }
    [] n = 1044 -> { << 12, 4, 2 >>, << 214, 16, 20000 >>, << 446, 10, 2443 % 1024 >> }
    [] n = 1041 -> { << 12, 6, 3 >>, << 18, 10, 2443 % 1024 >>, << 330, 16, 20000 >> }
    [] n = 1020 -> { << 12, 6, 3 >>, << 18, 5, 9 >>, << 24, 1, 1 >>, << 49, 23, 2000 >>,
                     << 73, 26, 1000 >>, << 268, 11, 100 >>, << 281, 1, 1 >> }
    [] n = 1043 -> { << 12, 6, 4 >>, << 44, 29, 1000 >> }
    [] n = 1042 -> { << 12, 6, 7 >>, << 267, 16, 20000 >> }
    [] OTHER    -> { << 12, 6, 8 >>, << 262, 16, 20000 >> }

\* An ephemeris frame of message number n with a payload of L bytes.
EphFrame(n, L) == FieldFrame(L, EphFields(n))

\* Ephemeris frames of every kind, each with the payloads of two lengths: the
\* length of the message and a length six bytes (Galileo: two bytes) off.
EphItems ==
  { EphFrame(1019, 61), EphFrame(1019, 67), EphFrame(1044, 61), EphFrame(1044, 67),
    EphFrame(1041, 61), EphFrame(1041, 67), EphFrame(1020, 45), EphFrame(1020, 51),
    EphFrame(1043, 29), EphFrame(1043, 35), EphFrame(1042, 64), EphFrame(1042, 70),
    EphFrame(1046, 61), EphFrame(1046, 63), EphFrame(1045, 60), EphFrame(1045, 62) }

EphScenarios ==
  { [stream |-> Concat(ss), lens |-> {0}] : ss \in SeqsUpTo(EphItems, MaxItems - 1) }

InitEph ==
  /\ Constructed
  /\ uninit = 0
  /\ gpsw = 2443 /\ shl = "wrap" /\ latin1 = "mark" /\ crc24 = << >>
  /\ plan = Single /\ run = 1 /\ snap = << >>
  /\ \E sc \in EphScenarios : stream = sc.stream /\ lens = sc.lens

SpecEph == InitEph /\ [][Next]_vars

\* Ephemeris frames that are accepted and frames that are rejected for their
\* size, their week, their sqrt(A) or their position, after a 1004 frame that
\* leaves an epoch open.
RejItems ==
  { GPSFrame(1004, 2000, 1, << 5 >>),
    GLONASSEphFrame(3, 20, 1000), GLONASSEphFrame(3, 9, 0), EphFrame(1020, 51),
    GPSEphFrame(5, 2443, 20000), GPSEphFrame(5, 2443, 100), GPSEphFrame(5, 2000, 20000),
    FieldFrame(29, { << 0, 12, 1043 >>, << 12, 6, 4 >> }) }

\* The frames are kept in plan.frames for comparison.
InitRej ==
  /\ Constructed
  /\ uninit = 0
  /\ gpsw = 2443 /\ shl = "wrap" /\ latin1 = "mark" /\ crc24 = << >>
  /\ run = 1 /\ snap = << >> /\ lens = {0}
  /\ \E ss \in SeqsUpTo(RejItems, MaxItems) :
        plan = [Single EXCEPT !.frames = ss] /\ stream = Concat(ss)

SpecRej == InitRej /\ [][Next]_vars

\* The fields of the observation of satellite number sv that hold the value
\* that stands for "no measurement": the L1 phase difference, the L2 code
\* difference, the L2 phase difference and the two CNRs of a legacy record,
\* the fine pseudorange, phase range and phase range rate of an MSM cell.
Sentinels(sv) ==
  CASE sv = 11 -> {"p1"} [] sv = 12 -> {"c2"} [] sv = 13 -> {"p2"}
    [] sv = 14 -> {"s1"} [] sv = 15 -> {"s2"}
    [] sv = 16 -> {"p1", "c2", "p2", "s1", "s2"}
    [] sv = 21 -> {"psr"} [] sv = 22 -> {"cp"} [] sv = 23 -> {"dop"}
    [] sv = 24 -> {"psr", "cp"}
    [] OTHER   -> {}

\* A legacy satellite record of type 1002, 1004, 1010 or 1012 for satellite
\* sv with the fields of Sentinels(sv) set to 0x80000, 0x2000 and 0.
SentinelRecord(type, sv) ==
  LET S  == Sentinels(sv)
      p1 == IF "p1" \in S THEN 524288 ELSE 7
      p2 == IF "p2" \in S THEN 524288 ELSE 7
      c2 == IF "c2" \in S THEN 8192 ELSE 0
      s1 == IF "s1" \in S THEN 0 ELSE 40
      s2 == IF "s2" \in S THEN 0 ELSE 40
  IN  Bits(sv, 6) \o Bits(0, 1)
      \o (IF type \in {1010, 1012} THEN Bits(9, 5) \o Bits(1000, 25) ELSE Bits(1000, 24))
      \o Bits(p1, 20) \o Bits(1, 7)
      \o (IF type \in {1010, 1012} THEN Bits(0, 7) ELSE Bits(0, 8))
      \o Bits(s1, 8)
      \o (IF type \in {1004, 1012}
          THEN Bits(1, 2) \o Bits(c2, 14) \o Bits(p2, 20) \o Bits(1, 7) \o Bits(s2, 8)
          ELSE << >>)

SentinelFrame(type, time, syncf, svs) ==
  Frame(BytesOf(LegacyHead(type, time, IF type \in {1010, 1012} THEN 27 ELSE 30,
                           syncf, Len(svs))
                \o Concat([k \in 1..Len(svs) |-> SentinelRecord(type, svs[k])])))

\* Legacy and MSM frames whose satellites carry the fields of Sentinels.
SentinelItems ==
  { SentinelFrame(1004, 1000, 0, << 5, 11 >>),
    SentinelFrame(1004, 1000, 0, << 12, 13 >>),
    SentinelFrame(1004, 1000, 1, << 14, 15 >>),
    SentinelFrame(1002, 1000, 0, << 16 >>),
    SentinelFrame(1012, 10783000, 0, << 11, 12, 13 >>),
    SentinelFrame(1012, 10783000, 1, << 14, 15, 16 >>),
    MSMFrameWith(1077, 1000, 0, {20}, {1}, << 1 >>, 15, 0 - 2 ^ 19, 3, 5),
    MSMFrameWith(1075, 1000, 0, {21}, {1}, << 1 >>, 15, 3, 0 - 2 ^ 21, 5),
    MSMFrameWith(1077, 1000, 1, {22}, {1}, << 1 >>, 15, 3, 3, 0 - 2 ^ 14),
    MSMFrameWith(1074, 1000, 0, {4, 23}, {1}, << 1, 1 >>, 15, 0 - 2 ^ 14, 0 - 2 ^ 21, 5) }

InitSentinel ==
  /\ Constructed
  /\ uninit = 0
  /\ gpsw = 2443 /\ shl = "wrap" /\ latin1 = "mark" /\ crc24 = << >>
  /\ plan = Single /\ run = 1 /\ snap = << >> /\ lens = {0}
  /\ \E ss \in SeqsUpTo(SentinelItems, MaxItems) : stream = Concat(ss)

SpecSentinel == InitSentinel /\ [][Next]_vars

\* A string as GETSTRING reads it: the length, then the characters.
Counted(str) == << Len(str) >> \o str

\* A 1007 frame: antenna descriptor and antenna setup ID.
AntennaFrame(descriptor, setup) ==
  Frame(BytesOf(Bits(1007, 12) \o Bits(0, 12)) \o Counted(descriptor) \o << setup >>)

\* A 1033 frame: antenna descriptor, setup ID and serial number, receiver
\* descriptor, firmware and serial number.
ReceiverFrame(descriptor, setup, serial, receiver, firmware, recserial) ==
  Frame(BytesOf(Bits(1033, 12) \o Bits(0, 12)) \o Counted(descriptor) \o << setup >>
        \o Counted(serial) \o Counted(receiver) \o Counted(firmware)
        \o Counted(recserial))

\* Antenna and receiver frames with descriptors "AB", "ABC", "RX" and "R" and
\* the setup IDs 0 and 1.
AntennaItems ==
  { AntennaFrame(<< 65, 66 >>, 0), AntennaFrame(<< 65, 66 >>, 1),
    AntennaFrame(<< 65, 66, 67 >>, 0),
    ReceiverFrame(<< 65, 66 >>, 0, << 83 >>, << 82, 88 >>, << 70 >>, << 78 >>),
    ReceiverFrame(<< 65, 66 >>, 0, << 83 >>, << 82 >>, << 70 >>, << 78 >>) }

\* The frames are kept in plan.frames for comparison.
InitAntenna ==
  /\ Constructed
  /\ uninit = 0
  /\ gpsw = 2443 /\ shl = "wrap" /\ latin1 = "mark" /\ crc24 = << >>
  /\ run = 1 /\ snap = << >> /\ lens = {0}
  /\ \E ss \in SeqsUpTo(AntennaItems, MaxItems) :
        plan = [Single EXCEPT !.frames = ss] /\ stream = Concat(ss)

SpecAntenna == InitAntenna /\ [][Next]_vars

\* Two decoders fed one after the other, so that what the second produced can
\* be compared with what the first did (snap).  A "chunk" plan feeds the same
\* stream in one call and then in calls of one or three bytes; a "prefix"
\* plan feeds the frames of plan.frames in one call and then, in one call
\* again, the same frames behind the bytes plan.prefix.
RunItems ==
  { FrameOfType(999), FrameOfType(0), FrameOfType(998), Frame(<< >>),
    GPSEphFrame(5, 2443, 20000) }

Prefixes ==
  { << 255 >>, << 0, 255, 7 >>, << FrameStart, 0, 16 >>, << 255, FrameStart, 0, 16 >> }

ChunkPlans ==
  { [stream |-> Concat(fs), lens |-> {0},
     plan |-> [kind |-> "chunk", next |-> << [stream |-> Concat(fs), lens |-> ls] >>,
               prefix |-> << >>, frames |-> fs]] :
      fs \in SeqsUpTo(RunItems, MaxItems), ls \in {{1}, {3}} }

PrefixPlans ==
  { [stream |-> Concat(fs), lens |-> {0},
     plan |-> [kind |-> "prefix",
               next |-> << [stream |-> P \o Concat(fs), lens |-> {0}] >>,
               prefix |-> P, frames |-> fs]] :
      fs \in SeqsUpTo(RunItems, MaxItems), P \in Prefixes }

InitRuns ==
  /\ Constructed
  /\ uninit = 0
  /\ gpsw = 2443 /\ shl = "wrap" /\ latin1 = "mark" /\ crc24 = << >>
  /\ run = 1 /\ snap = << >>
  /\ \E sc \in ChunkPlans \cup PrefixPlans :
       stream = sc.stream /\ lens = sc.lens /\ plan = sc.plan

NextRuns ==
  \/ \E len \in lens : DecodeCall(len)
  \/ DecodeCopy
  \/ DecodeGetMessage
  \/ DecodeReturn
  \/ Restart

SpecRuns == InitRuns /\ [][NextRuns]_vars


----------------------------------------------------------------------------
(* Two decoders in one process, one per station: each has its own members  *)
(* and its own stream, the static table GLOFreq is the same for both.      *)

\* The members and the running call of one RTCM3Decoder, with the stream its
\* caller has still to feed.
Instance ==
  [ _Message |-> _Message, _MessageSize |-> _MessageSize, _NeedBytes |-> _NeedBytes,
    _SkipBytes |-> _SkipBytes, _BlockSize |-> _BlockSize, _typeList |-> _typeList,
    _CurrentTime |-> _CurrentTime, _CurrentObsList |-> _CurrentObsList,
    _obsList |-> _obsList, emitted |-> emitted, _antType |-> _antType,
    _recType |-> _recType, _staID |-> _staID, _coDecoders |-> _coDecoders, pc |-> pc, buffer |-> buffer, decoded |-> decoded,
    id |-> id, irc |-> irc, stream |-> stream, lens |-> lens, call |-> call ]

\* A decoder as its constructor leaves it, with the stream bytes to feed.
Fresh(bytes) ==
  [ _Message |-> New._Message, _MessageSize |-> New._MessageSize,
    _NeedBytes |-> New._NeedBytes, _SkipBytes |-> New._SkipBytes,
    _BlockSize |-> New._BlockSize, _typeList |-> New._typeList,
    _CurrentTime |-> New._CurrentTime, _CurrentObsList |-> New._CurrentObsList,
    _obsList |-> New._obsList, emitted |-> New.emitted, _antType |-> New._antType,
    _recType |-> New._recType, _staID |-> << 66 >>,
    _coDecoders |-> New._coDecoders, pc |-> "idle", buffer |-> << >>, decoded |-> FALSE,
    id |-> 0, irc |-> "none", stream |-> bytes, lens |-> {0}, call |-> New.call ]

\* The other decoder goes on: between two steps of one decoder the other may
\* take any number of steps.  GLOFreq is static and stays as it is.
Switch ==
  /\ plan.kind = "shared"
  /\ snap' = Instance
  /\ run' = 3 - run
  /\ _Message' = snap._Message /\ _MessageSize' = snap._MessageSize
  /\ _NeedBytes' = snap._NeedBytes /\ _SkipBytes' = snap._SkipBytes
  /\ _BlockSize' = snap._BlockSize /\ _typeList' = snap._typeList
  /\ _CurrentTime' = snap._CurrentTime /\ _CurrentObsList' = snap._CurrentObsList
  /\ _obsList' = snap._obsList /\ emitted' = snap.emitted
  /\ _antType' = snap._antType /\ _recType' = snap._recType
  /\ _staID' = snap._staID /\ _coDecoders' = snap._coDecoders
  /\ pc' = snap.pc /\ buffer' = snap.buffer /\ decoded' = snap.decoded
  /\ id' = snap.id /\ irc' = snap.irc /\ stream' = snap.stream
  /\ lens' = snap.lens /\ call' = snap.call
  /\ UNCHANGED << GLOFreq, wild, uninit, gpsw, shl, latin1, crc24, plan >>

\* Frames that store to GLOFreq and a GLONASS MSM frame that reads it.
SharedItems ==
  { GLONASSFrame(1012, 10783000, 1, << 3 >>, 9),
    GLONASSFrame(1010, 10783000, 1, << 0 >>, 9),
    GLONASSEphFrame(3, 20, 1000),
    MSMFrame(1087, 10784000, 0, {2, 4}, {1, 7}, << 1, 1, 1, 1 >>, 15, 3, 3) }

InitShared ==
  /\ Constructed
  /\ uninit = 0
  /\ gpsw = 2443 /\ shl = "wrap" /\ latin1 = "mark" /\ crc24 = << >>
  /\ run = 1 /\ lens = {0}
  /\ plan = [Single EXCEPT !.kind = "shared"]
  /\ \E s1, s2 \in SeqsUpTo(SharedItems, MaxItems - 2) :
        stream = Concat(s1) /\ snap = Fresh(Concat(s2))

NextShared ==
  \/ \E len \in lens : DecodeCall(len)
  \/ DecodeCopy
  \/ DecodeGetMessage
  \/ DecodeReturn
  \/ Switch

SpecShared == InitShared /\ [][NextShared]_vars

----------------------------------------------------------------------------
(* Properties of the framer, checked under SpecFramer and SpecRuns.        *)

\* GetMessage has just returned a non-zero message number: the loop body ran
\* and the next step calls GetMessage again.
Yielded == pc = "GetMessage" /\ id # 0

\* C1: whenever GetMessage returns a non-zero message number, the buffer
\* begins with a complete frame: byte 0 is 0xD3, at least L + 6 bytes are
\* buffered (L the 10-bit length) and the CRC-24Q of the first L + 3 bytes
\* equals the three bytes that follow them.
YieldedFrameComplete ==
  Yielded => /\ MsgAt(0) = FrameStart
             /\ BlockComplete(0, BlockSizeAt(0))
             /\ CRCMatches(0, BlockSizeAt(0))

\* C2: the inner loop cannot yield from the same buffer position forever: the
\* GetMessage call that follows a yield removes at least one byte from the
\* buffer.
YieldRemovesBytes == [][Yielded => _MessageSize' < _MessageSize]_vars

\* C5: when Decode returns, every byte of the call was copied to the buffer,
\* and no call of Decode starts with a full buffer.
AllInputAccepted ==
  /\ call.dropped = 0
  /\ pc = "idle" => _MessageSize < sizeofMessage

\* The second decoder of a plan of the given kind has been fed its stream.
SecondFed(kind) == plan.kind = kind /\ run = 2 /\ Fed

\* C3: chunking independence: a stream fed one or three bytes per call leaves
\* the same outputs and the same decoder state as the stream fed in one call.
ChunkingIndependent == SecondFed("chunk") => Observable = snap

\* The message numbers of the frames fs.
Numbers(fs) == [k \in 1..Len(fs) |-> MessageNumber(fs[k], 0)]

\* The frames of fs that precede its first frame with message number 0.
BeforeZero(fs) ==
  LET zeros == {k \in 1..Len(fs) : MessageNumber(fs[k], 0) = 0}
  IN  IF zeros = {} THEN fs ELSE SubSeq(fs, 1, Min(zeros) - 1)

\* No byte of P is 0xD3.
NoFrameStart(P) == \A k \in 1..Len(P) : P[k] # FrameStart

----------------------------------------------------------------------------
(* Properties of the epoch accumulator and of the result of Decode,        *)
(* checked under Spec.                                                     *)

\* C6: epoch grouping: _CurrentObsList holds only observations of
\* _CurrentTime, and every batch appended to _obsList holds observations of
\* one epoch only.
EpochGrouping ==
  /\ \A i \in 1..Len(_CurrentObsList) : _CurrentObsList[i]._time = _CurrentTime
  /\ \A b \in 1..Len(_obsList) :
       \A i, j \in 1..Len(_obsList[b]) :
         _obsList[b][i]._time = _obsList[b][j]._time

\* C6 reached: an epoch change flushed a batch of two observations or more
\* and the next epoch is being accumulated.
EpochGroupingReached ==
  /\ _CurrentObsList # << >>
  /\ \E b \in 1..Len(_obsList) : Len(_obsList[b]) >= 2

\* The message numbers of the observation frames: legacy GPS and GLONASS,
\* MSM 1 to 7 of the seven constellations.
ObservationType(n) ==
  \/ n \in 1001..1004 \cup 1009..1012
  \/ n \in 1071..1137 /\ n % 10 \in 1..7

\* The bit of the payload that holds the sync flag.
SyncBit(n) == IF n \in 1009..1012 THEN 51 ELSE 54

\* C7: after an observation frame whose sync flag is 0 has been processed,
\* the epoch accumulator is empty: _CurrentObsList has no elements and
\* _CurrentTime is invalid.
SyncClearedEmpties ==
  (Yielded /\ ObservationType(id) /\ GETBITS(_Message, SyncBit(id), 1) = 0) =>
    (_CurrentObsList = << >> /\ ~_CurrentTime.valid)

\* C8: between frames, a valid _CurrentTime implies that _CurrentObsList is
\* not empty.
TimeValidImpliesStaged == _CurrentTime.valid => _CurrentObsList # << >>

\* C9: Decode returns success only if the call appended a batch of at least
\* one observation to _obsList or emitted an ephemeris.
SuccessProducedOutput ==
  (call.done /\ irc = "success") =>
    \/ Len(emitted) > call.eph
    \/ \E b \in (call.obs + 1)..Len(_obsList) : _obsList[b] # << >>

\* C10: if Decode returns failure, the call appended no observation to
\* _obsList and emitted no ephemeris.
FailureProducedNothing ==
  (call.done /\ irc = "failure") =>
    /\ \A b \in (call.obs + 1)..Len(_obsList) : _obsList[b] = << >>
    /\ Len(emitted) = call.eph

\* C11: every frame the framer consumed left its message number in _typeList,
\* once and in stream order, and nothing else is in _typeList: when a stream
\* of frames was fed and the buffer is empty again, _typeList holds the
\* message numbers of the frames.
TypeListRecordsFrames ==
  (SecondFed("chunk") /\ _MessageSize = 0) => _typeList = Numbers(plan.frames)

\* C12: every entry of GLOFreq is 0 (unknown) or 100 + k for a channel k in
\* -7 .. 13.
GLOFreqEncoded ==
  \A k \in 1..RTCM3_MSM_NUMSAT : GLOFreq[k] = 0 \/ GLOFreq[k] - 100 \in (0 - 7)..13

\* A step of Decode's inner loop that dispatched a frame: afterwards id is its
\* message number and _BlockSize its length with header and CRC.
Dispatching == pc = "GetMessage" /\ pc' = "GetMessage" /\ id' # 0

\* The size each ephemeris decoder but Galileo's compares with.
ExactSize ==
  [n \in {1019, 1020, 1041, 1042, 1043, 1044} |->
     CASE n = 1020 -> 51 [] n = 1043 -> 35 [] n = 1042 -> 70 [] OTHER -> 67]

\* C13 (amended): the decoders of 1019, 1044, 1041, 1020, 1043 and 1042 reject
\* every frame whose length with header and CRC, L + 6, differs from 67, 67,
\* 67, 51, 35 and 70: nothing is emitted and `decoded` is not set.
FrameSizeChecked ==
  [][(Dispatching /\ id' \in DOMAIN ExactSize /\ _BlockSize' # ExactSize[id'])
       => (emitted' = emitted /\ decoded' = decoded)]_vars

\* C13 reached: frames of the length that is accepted and of another length
\* were dispatched to the 1042 decoder, and one ephemeris was emitted.
FrameSizeReached ==
  /\ Yielded /\ id = 1042 /\ _BlockSize = 76
  /\ _typeList = << 1042, 1042 >>
  /\ Len(emitted) = 1

\* C13 as stated: every ephemeris decoder rejects the frames whose payload
\* length L differs from 67 (1019, 1044, 1041), 51 (1020), 35 (1043),
\* 70 (1042), 61 (1046) and 60 (1045).
PayloadSizeChecked ==
  [][(/\ Dispatching
      /\ \/ id' \in DOMAIN ExactSize /\ _BlockSize' - 6 # ExactSize[id']
         \/ id' = 1046 /\ _BlockSize' - 6 # 61
         \/ id' = 1045 /\ _BlockSize' - 6 # 60)
       => emitted' = emitted]_vars

\* The message numbers Decode hands to an ephemeris decoder.
EphemerisNumbers == {1019, 1020, 1041, 1042, 1043, 1044, 1045, 1046}

\* C14: a rejected ephemeris leaves no trace: when an ephemeris decoder emits
\* nothing for the frame it was handed, GLOFreq, _CurrentObsList, _CurrentTime
\* and _obsList are unchanged and `decoded` is not set; the frame is marked
\* consumed, and once the stream is fed every frame of it was dispatched.
RejectedLeavesNoTrace ==
  /\ [][(Dispatching /\ id' \in EphemerisNumbers /\ emitted' = emitted)
          => /\ GLOFreq' = GLOFreq /\ wild' = wild
             /\ _CurrentObsList' = _CurrentObsList
             /\ _CurrentTime' = _CurrentTime
             /\ _obsList' = _obsList
             /\ decoded' = decoded
             /\ _SkipBytes' = Len(plan.frames[Len(_typeList')])]_vars
  /\ [](Fed => _typeList = Numbers(plan.frames))

\* C14 reached: a 1020 frame with an all-zero position came after a 1004 frame
\* that staged a satellite and an accepted 1020 frame of the same satellite
\* with another channel; the channel stored and the staged satellite are those
\* of the frames before it.
RejectedReached ==
  /\ Yielded /\ id = 1020
  /\ _typeList = << 1004, 1020, 1020 >>
  /\ Len(emitted) = 1
  /\ GLOFreq[3] = 113
  /\ Len(_CurrentObsList) = 1

\* C15: a candidate frame whose six reserved bits, the top bits of the byte
\* that follows 0xD3, are not all zero is never yielded as a message.
ReservedBitsChecked == Yielded => MsgAt(1) \div 4 = 0

\* C16: in every reachable state 0 <= _SkipBytes <= _MessageSize <= 2048, and
\* every GetMessage call compacts: the bytes it keeps are the last bytes of
\* the buffer it found, moved to index 0, and they begin with a candidate
\* frame start unless fewer than three are left.
BufferBounded ==
  /\ [](/\ 0 <= _SkipBytes /\ _SkipBytes <= _MessageSize
        /\ _MessageSize <= sizeofMessage /\ Len(_Message) <= sizeofMessage)
  /\ [][pc = "GetMessage" =>
          /\ _MessageSize' <= _MessageSize
          /\ SubSeq(_Message', 1, _MessageSize')
               = SubSeq(_Message, _MessageSize - _MessageSize' + 1, _MessageSize)
          /\ (_MessageSize' >= 3 => _Message'[1] = FrameStart)]_vars

\* C16 reached: a second frame was yielded from index 0 after the frame in
\* front of it was removed, with one byte left behind it.
BufferCompacted ==
  /\ Yielded /\ _typeList = << 999, 998 >>
  /\ _SkipBytes = 8 /\ _MessageSize = 9

\* Some numeric field of the signal f is flagged valid.
SomeValid(f) == f._codeValid \/ f._phaseValid \/ f._dopplerValid \/ f._snrValid

\* C17: no satellite observation appended to _obsList is empty: each has a
\* signal with a valid code, phase, Doppler or SNR.
NoEmptyObservation ==
  \A b \in 1..Len(_obsList) : \A k \in 1..Len(_obsList[b]) :
    \E n \in 1..Len(_obsList[b][k]._obs) : SomeValid(_obsList[b][k]._obs[n])

\* The satellite observations held by the decoder, staged or appended.
Observations ==
  {_CurrentObsList[k] : k \in 1..Len(_CurrentObsList)}
  \cup UNION {{_obsList[b][k] : k \in 1..Len(_obsList[b])} : b \in 1..Len(_obsList)}

\* o comes from a legacy frame: its first signal is L1, its second L2.
Legacy(o) == o._type \in {1002, 1004, 1010, 1012}

\* C18: sentinel respect: no signal of an observation the decoder holds has a
\* field flagged valid whose raw value was the sentinel: the phase for a
\* 20-bit phase difference 0x80000, the L2 code for a 14-bit code difference
\* 0x2000, the SNR for a CNR of 0, and the code, phase and Doppler of an MSM
\* signal for the most negative fine pseudorange, phase range and rate.
SentinelRespected ==
  \A o \in Observations :
    LET S == Sentinels(o._prn[2])
    IN  IF Legacy(o)
        THEN /\ "p1" \in S => ~o._obs[1]._phaseValid
             /\ "s1" \in S => ~o._obs[1]._snrValid
             /\ Len(o._obs) = 2 =>
                  /\ "c2" \in S => ~o._obs[2]._codeValid
                  /\ "p2" \in S => ~o._obs[2]._phaseValid
                  /\ "s2" \in S => ~o._obs[2]._snrValid
        ELSE \A n \in 1..Len(o._obs) :
               /\ "psr" \in S => ~o._obs[n]._codeValid
               /\ "cp" \in S => ~o._obs[n]._phaseValid
               /\ "dop" \in S => ~o._obs[n]._dopplerValid

\* C18 reached: the decoder holds a 1004 observation whose L2 code difference
\* was the sentinel and whose L2 phase is valid, a 1012 observation with a
\* CNR of 0 on L1 and a valid L1 phase, and an MSM7 observation whose fine
\* pseudorange was the sentinel and whose phase and Doppler are valid.
SentinelReached ==
  /\ \E o \in Observations :
       o._type = 1004 /\ o._prn[2] = 12 /\ ~o._obs[2]._codeValid /\ o._obs[2]._phaseValid
  /\ \E o \in Observations :
       o._type = 1012 /\ o._prn[2] = 14 /\ ~o._obs[1]._snrValid /\ o._obs[1]._phaseValid
  /\ \E o \in Observations :
       /\ o._type = 1077 /\ o._prn[2] = 21 /\ Len(o._obs) = 1
       /\ ~o._obs[1]._codeValid /\ o._obs[1]._phaseValid /\ o._obs[1]._dopplerValid

\* The antenna descriptor of an antenna or receiver frame, and the receiver
\* descriptor of a 1033 frame, as they were put into the frame.
AntennaOf(frame) == SubSeq(frame, 8, 7 + frame[7])

ReceiverOf(frame) ==
  LET a == 8 + frame[7] + 1
      r == a + 1 + frame[a]
  IN  SubSeq(frame, r + 1, r + frame[r])

\* ds without the entries that equal the entry before them.
Distinct(ds) ==
  LET keep == {k \in 1..Len(ds) : k = 1 \/ ds[k] # ds[k - 1]}
  IN  [n \in 1..Cardinality(keep) |-> ds[Ascending(keep)[n]]]

\* C19: descriptor de-duplication: once the frames are processed, _antType
\* holds the antenna descriptors of the frames and _recType the receiver
\* descriptors of the 1033 frames, each without the descriptors that equal
\* the one before; the same frame twice leaves the lists as long as once.
DescriptorsDeduplicated ==
  Fed =>
    LET fs  == plan.frames
        rs  == Ascending({k \in 1..Len(fs) : MessageNumber(fs[k], 0) = 1033})
        ant == Distinct([k \in 1..Len(fs) |-> AntennaOf(fs[k])])
        rec == Distinct([n \in 1..Len(rs) |-> ReceiverOf(fs[rs[n]])])
    IN  /\ [k \in 1..Len(_antType) |-> _antType[k].descriptor] = ant
        /\ [k \in 1..Len(_recType) |-> _recType[k].descriptor] = rec

\* C20: an MSM frame with a message number in 1101-1107 is classified as
\* SBAS: after a frame of sub-type 4-7 is dispatched the decoder holds an
\* observation of that frame for every satellite of its mask, with system
\* 'S' and the number of the mask position, counted from 1, plus 19.
SBASMSMStaged ==
  [][(Dispatching /\ id' \in 1104..1107)
       => \A s \in {MSMSats(_Message')[k] : k \in 1..Len(MSMSats(_Message'))} :
            \E o \in Observations' : o._type = id' /\ o._prn = << "S", s + 20 >>]_vars

\* The band of the GLONASS FDMA signals: the RINEX codes whose wavelength
\* depends on the channel.
FDMABand(rnx) ==
  IF rnx \in {"1C", "1P"} THEN "GLO_WAVELENGTH_L1"
  ELSE IF rnx \in {"2C", "2P"} THEN "GLO_WAVELENGTH_L2"
  ELSE ""

\* C21: GLONASS slot resolution in MSM 1084-1087: every observation such a
\* frame stages has, for each FDMA signal (1C, 1P, 2C, 2P), a known channel:
\* the GLOFreq entry of its satellite is not 0 once the frame is decoded, and
\* the wavelength of the signal is that of the channel k with 100 + k the
\* value of the entry, which is the value written last, by this frame's own
\* extended information or by a frame before it.  A cell of a satellite whose
\* entry is 0 and stays 0 yields no signal.
GLOSlotResolved ==
  [][(Dispatching /\ id' \in 1084..1087)
       => \A o \in Observations' \ Observations :
            \A n \in 1..Len(o._obs) :
              FDMABand(o._obs[n]._rnxType2ch) # "" =>
                /\ GLOFreq'[o._prn[2]] # 0
                /\ o._obs[n].wl = << FDMABand(o._obs[n]._rnxType2ch),
                                     GLOFreq'[o._prn[2]] - 100 >>]_vars

\* C21 reached: after a 1012 frame gave channel field 9 for satellite 3 and an
\* MSM5 frame with extended information 0 overwrote it, an MSM7 frame without
\* usable extended information appended satellite 3 with the L1 and L2
\* wavelengths of channel -7, and nothing for satellite 5, whose entry is 0.
GLOSlotReached ==
  /\ Yielded /\ _typeList = << 1012, 1085, 1087 >>
  /\ GLOFreq[3] = 93 /\ GLOFreq[5] = 0
  /\ \E o \in Observations :
       /\ o._type = 1087 /\ o._prn = << "R", 3 >>
       /\ o._obs[1].wl = << "GLO_WAVELENGTH_L1", 0 - 7 >>
       /\ o._obs[2].wl = << "GLO_WAVELENGTH_L2", 0 - 7 >>
  /\ \A o \in Observations : o._prn # << "R", 5 >>

\* A step in which the running decoder gives way to the other one.
Switching == run' # run

\* C22: with two decoders working on their own streams in any interleaving,
\* GLOFreq is a last-writer-wins table: every store overwrites one entry of
\* the table, the entries are the same for the decoder that goes on as for
\* the one that stops, and the channel a GLONASS MSM frame resolves is the
\* one stored last, by whichever decoder.
SharedTableLastWriterWins ==
  /\ [](wild = {})
  /\ [][Switching => GLOFreq' = GLOFreq]_vars
  /\ [][(Dispatching /\ ~Switching /\ id' \in 1084..1087)
          => \A o \in Observations' \ Observations :
               \A n \in 1..Len(o._obs) :
                 FDMABand(o._obs[n]._rnxType2ch) # "" =>
                   o._obs[n].wl = << FDMABand(o._obs[n]._rnxType2ch),
                                     GLOFreq'[o._prn[2]] - 100 >>]_vars

\* Every observation the decoder holds, in the order of _obsList and then of
\* _CurrentObsList.
Held == Concat(_obsList) \o _CurrentObsList

\* The observations a step adds to the ones held.
Added == SubSeq(Held', Len(Held) + 1, Len(Held'))

GLOFreqIndexInTable == wild = {}

\* C25: in every state, a non-empty _CurrentObsList has a valid _CurrentTime,
\* and it is the time of every satellite in the list: while _CurrentTime is
\* invalid nothing is pending, and no satellite of an earlier epoch stays in
\* the list once a frame of another epoch has been staged.
PendingHasValidTime ==
  _CurrentObsList # << >> =>
    /\ _CurrentTime.valid
    /\ \A k \in 1..Len(_CurrentObsList) : _CurrentObsList[k]._time.ms = _CurrentTime.ms

\* C25 reached: a sync 0 frame has flushed an epoch and reset the time, and
\* the satellites of a later frame are pending under its time.
PendingReached ==
  /\ Yielded /\ _typeList = << 1004, 1004, 1087 >>
  /\ Len(_obsList) = 1 /\ Len(_obsList[1]) = 3
  /\ Len(_CurrentObsList) = 2 /\ _CurrentTime.valid

\* The frame dispatched by the step is an MSM frame of sub-type 1, 2 or 3 of
\* a constellation DecodeRTCM3MSM recognises, long enough to hold the epoch
\* time and the sync flag.
PartialMSM ==
  /\ Dispatching /\ id' \in 1071..1137 /\ id' % 10 \in 1..3
  /\ MSMSys(id') # "" /\ Readable(_BlockSize', 55)

\* C26: an MSM frame of sub-type 1, 2 or 3 stages no observation and stores
\* nothing to GLOFreq, and its epoch time and sync flag are applied: pending
\* satellites of another epoch are appended to _obsList as a batch; with sync
\* 1 _CurrentTime becomes the epoch of the frame and satellites of the same
\* epoch stay pending; with sync 0 what is pending is appended as a batch,
\* _CurrentObsList is empty and _CurrentTime invalid.
PartialMSMSkipped ==
  [][PartialMSM =>
       LET t      == MSMTime(_Message', MSMSys(id'))
           change == _CurrentTime.valid /\ t.ms # _CurrentTime.ms
           flushed == IF change THEN Append(_obsList, _CurrentObsList) ELSE _obsList
           pending == IF change THEN << >> ELSE _CurrentObsList
       IN  /\ GLOFreq' = GLOFreq /\ wild' = wild
           /\ Held' = Held
           /\ GETBITS(_Message', 54, 1) = 1 =>
                /\ _CurrentTime' = t
                /\ _obsList' = flushed /\ _CurrentObsList' = pending
           /\ GETBITS(_Message', 54, 1) = 0 =>
                /\ ~_CurrentTime'.valid
                /\ _obsList' = Append(flushed, pending) /\ _CurrentObsList' = << >>]_vars

\* C26 reached: a 1071 frame of another epoch with sync 1 has flushed the
\* satellite of a 1004 frame and set the time, and a 1083 frame of that epoch
\* with sync 0 has reset it, appending an empty batch.
PartialMSMReached ==
  /\ Yielded /\ _typeList = << 1004, 1071, 1083 >>
  /\ Len(_obsList) = 2 /\ Len(_obsList[1]) = 1 /\ _obsList[2] = << >>
  /\ _CurrentObsList = << >> /\ ~_CurrentTime.valid

\* The frame dispatched by the step is an MSM frame of sub-type 4 to 7 of a
\* constellation DecodeRTCM3MSM recognises.
FullMSM ==
  /\ Dispatching /\ id' \in 1071..1137 /\ id' % 10 \in 4..7 /\ MSMSys(id') # ""

\* The satellites and RINEX codes of the cells whose bit is set in the cell
\* mask of the frame in msg, for the signals the table of the constellation
\* has a code for: cell a * numsig + b belongs to the a-th satellite and the
\* b-th signal of the masks.
CellsOfFrame(msg, sys) ==
  LET sats == MSMSats(msg)
      sigs == MSMSigs(msg)
  IN  { << sats[a] + 1, MSMCodes(sys)[sigs[b] + 1] >> :
          << a, b >> \in { x \in (1..Len(sats)) \X (1..Len(sigs)) :
               /\ GETBITS(msg, 169 + (x[1] - 1) * Len(sigs) + (x[2] - 1), 1) = 1
               /\ MSMCodes(sys)[sigs[x[2]] + 1] # "" } }

\* The satellites and RINEX codes of the signals a step adds.
CellsAdded ==
  { << Added[k]._prn[2], Added[k]._obs[n]._rnxType2ch >> :
      << k, n >> \in { x \in (1..Len(Added)) \X (1..2) : x[2] <= Len(Added[x[1]]._obs) } }

\* C27: an MSM frame of more than 96 cells (satellites times signals of the
\* masks) adds nothing to _CurrentObsList and stores nothing to GLOFreq; a
\* frame of at most 96 cells is walked with the presence of every cell taken
\* from its own bit of the cell mask: the signals staged are those of the
\* cells whose bit is set (for GLONASS, those of them with a known channel).
CellLimitRespected ==
  [][FullMSM =>
       LET sys      == MSMSys(id')
           numcells == Len(MSMSats(_Message')) * Len(MSMSigs(_Message'))
       IN  /\ numcells > RTCM3_MSM_NUMCELLS =>
                /\ Added = << >> /\ GLOFreq' = GLOFreq /\ wild' = wild
           /\ numcells <= RTCM3_MSM_NUMCELLS =>
                /\ CellsAdded \subseteq CellsOfFrame(_Message', sys)
                /\ sys # "R" => CellsAdded = CellsOfFrame(_Message', sys)]_vars

\* The message numbers Decode has a decoder for: the SSR numbers, the range
\* handed to DecodeRTCM3MSM and the cases of the switch that call one.
HasDecoder(n) ==
  \/ IsSSR(n)
  \/ n >= 1070 /\ n <= 1237
  \/ n \in {1002, 1004, 1010, 1012, 1019, 1020, 1041, 1042, 1043, 1044, 1045, 1046,
            1005, 1006, 1007, 1008, 1033}

\* C28: a frame of message number 1001, 1003, 1009 or 1011, or of a number
\* Decode has no decoder for, leaves _CurrentObsList, _CurrentTime, _obsList,
\* GLOFreq and the lists of antenna and receiver descriptors as they were, and
\* nothing is emitted; its message number is appended to _typeList.
IgnoredFrameLeavesState ==
  [][(Dispatching /\ (id' \in {1001, 1003, 1009, 1011} \/ ~HasDecoder(id')))
       => /\ UNCHANGED << _CurrentObsList, _CurrentTime, _obsList, GLOFreq, wild,
                          _antType, _recType, emitted, decoded >>
          /\ _typeList' = Append(_typeList, id')]_vars

\* C28 reached: a 1011 and a 1013 frame were dispatched while the satellites
\* of a 1087 frame were pending, which they still are under the same time.
IgnoredFrameReached ==
  /\ Yielded /\ _typeList = << 1087, 1011, 1013 >>
  /\ Len(_CurrentObsList) = 2 /\ _CurrentTime = setTk(10784000)
  /\ _obsList = << >> /\ GLOFreq[3] = 101 /\ GLOFreq[4] = 0 /\ ~decoded

\* The SSR frames dispatched so far, as << station, message number >>, in the
\* order the co-decoders were given them: those of station sta.
PassedOf(sta) ==
  { f \in UNION { { _coDecoders[k].passed[n] : n \in 1..Len(_coDecoders[k].passed) } :
                  k \in DOMAIN _coDecoders } : f[1] = sta }

\* C29: for every station id at most one co-decoder is created, on the first
\* SSR frame of that station, with the format of that frame (IGSssr for 4076,
\* RTCMssr otherwise), and the later SSR frames of the station are passed to
\* it: a station with SSR frames has exactly one co-decoder created for it,
\* which was given all of them and no frame before the station's first.
CoDecoderPerStation ==
  \A sta \in StationIds :
    PassedOf(sta) # {} =>
      \E k \in DOMAIN _coDecoders :
        LET c == _coDecoders[k]
        IN  /\ c._staID = sta
            /\ \A j \in DOMAIN _coDecoders : _coDecoders[j]._staID = sta => j = k
            /\ c.passed[1][1] = sta
            /\ c._type = (IF c.passed[1][2] = 4076 THEN "IGSssr" ELSE "RTCMssr")
            /\ PassedOf(sta) \subseteq { c.passed[n] : n \in 1..Len(c.passed) }

\* C30: CRC24 starts from 0 and applies no final XOR; crc is below 2^24
\* after every processed bit, so is the result; the CRC24 of no bytes is 0;
\* the CRC24 of data followed by the three bytes of its CRC24, most
\* significant first, is 0.  The value returned is the one the framer's
\* CRC24 operator has for the buffer.
CRC24Sound ==
  crc24 # << >> =>
    /\ crc24.crc < 16777216
    /\ (crc24.pc = "while" /\ crc24.p = 1) => crc24.crc = 0
    /\ crc24.pc = "return" =>
         /\ crc24.crc = CRC24(Len(crc24.buf), crc24.buf)
         /\ crc24.buf = << >> => crc24.crc = 0
         /\ crc24.buf # crc24.data => crc24.crc = 0

\* C30 reached: CRC24 has returned 0 for two bytes of data followed by the
\* three bytes of their CRC24, which are not all 0.
CRC24Reached ==
  /\ crc24 # << >> /\ crc24.pc = "return"
  /\ crc24.data = << 211, 1 >> /\ Len(crc24.buf) = 5 /\ crc24.crc = 0
  /\ SubSeq(crc24.buf, 3, 5) # << 0, 0, 0 >>

============================================================================
